---------------------------- MODULE Spec2Model ----------------------------
(***************************************************************************)
(* A model of the Accessible Technology Test Adapter (ATTA) session        *)
(* engine: wai-aria/tools/atta_base.py, atta_request_handler.py and the    *)
(* ATK / AXAPI adapters.                                                   *)
(*                                                                         *)
(* Python values are modelled as follows: None is the string "None";       *)
(* the value of Atta._ready is one of "True", "False" and "" (the          *)
(* expression `uri and uri == test_uri` yields the empty string when the   *)
(* URI read is empty); accessible objects are named by strings.            *)
(***************************************************************************)
EXTENDS Integers, Sequences, FiniteSets, TLC

None == "None"
PyTrue == "True"
PyFalse == "False"

PyBool(b) == IF b THEN PyTrue ELSE PyFalse

\* Python truthiness of the values this model stores (bool, str, None).
Truthy(v) == v \notin {None, PyFalse, ""}

(***************************************************************************)
(* The platform: a small accessibility tree.  Two applications, each with  *)
(* one window holding one web document; d1 has two levels of descendants.  *)
(***************************************************************************)
Apps == {"app1", "app2"}
Windows == {"w1", "w2"}
Docs == {"d1", "d2"}
Nodes == {"e1", "e2", "e3", "f1"}
Elements == Apps \cup Windows \cup Docs \cup Nodes

\* The desktop's children, in order.
RunningApplications == <<"app1", "app2">>

\* Children of an accessible object, in order.
ChildrenOf(obj) ==
    CASE obj = "app1" -> <<"w1">>
      [] obj = "app2" -> <<"w2">>
      [] obj = "w1" -> <<"d1">>
      [] obj = "w2" -> <<"d2">>
      [] obj = "d1" -> <<"e1", "e3">>
      [] obj = "e1" -> <<"e2">>
      [] obj = "d2" -> <<"f1">>
      [] OTHER -> << >>

\* The parent of an accessible object; None above an application.
ParentOf(obj) ==
    IF \E q \in Elements : \E i \in 1..Len(ChildrenOf(q)) : ChildrenOf(q)[i] = obj
    THEN CHOOSE q \in Elements : \E i \in 1..Len(ChildrenOf(q)) : ChildrenOf(q)[i] = obj
    ELSE None

\* The application an object belongs to (the "application" property).
RECURSIVE ApplicationOf(_)
ApplicationOf(obj) ==
    IF obj \in Apps THEN obj
    ELSE IF obj = None \/ ParentOf(obj) = None THEN None
    ELSE ApplicationOf(ParentOf(obj))

AppName(app) == IF app = "app1" THEN "MiniBrowser" ELSE "WebKitWebProcess"

\* Test names and URLs the remote runner announces.
TestNames == {"t1", "t2"}
UrlA == "http://h/a"
UrlB == "http://h/b"
TestUrls == {UrlA, UrlB}

\* What a document can currently show: a URI ("" when it exposes none) and a title.
Page(uri, title) == [uri |-> uri, title |-> title]
Pages == {Page(UrlA, "t1"), Page(UrlB, "t2"), Page("", "t1")}
WindowSuffix == " - UA"

VARIABLES
    atta,       \* the fields of the Atta object
    cfg,        \* command-line options and the adapter in use; fixed after Init
    plat,       \* what the platform currently exposes for each document
    registered, \* the event types the platform has a test-event listener registered for
    http,       \* the request handler: _running_tests and the responses to the last request
    call,       \* a function of the adapter applied to an argument, and its result
    threads,    \* where the HTTP thread and the listener thread are, and their locals
    net,        \* history: how often each bug URI has been looked up on the network
    latched,    \* history: the URI and title is_ready read when it last latched ready
    lastOp      \* history: the operation performed by the last step

vars == <<atta, cfg, plat, registered, http, call, threads, net, latched, lastOp>>

\* The variables no operation of the session, the listener or the platform touches.
idleVars == <<http, call, threads, net>>

\* The title of an object: a document's own title; a window shows its document's.
TitleOf(p, obj) ==
    IF obj \in Docs THEN p[obj].title
    ELSE IF obj \in Windows THEN p[ChildrenOf(obj)[1]].title \o WindowSuffix
    ELSE ""

\* Python's `needle in haystack` on strings.
StrContains(haystack, needle) ==
    \E i \in 1..(Len(haystack) - Len(needle) + 1) :
        SubSeq(haystack, i, i + Len(needle) - 1) = needle

\* " ".join(s.split()): runs of blanks become one blank, the ends are stripped.
RECURSIVE SplitJoin(_, _, _)
SplitJoin(s, i, acc) ==
    IF i > Len(s) THEN acc
    ELSE LET ch == SubSeq(s, i, i)
         IN IF ch = " "
            THEN SplitJoin(s, i + 1, acc)
            ELSE LET sep == IF acc # "" /\ i > 1 /\ SubSeq(s, i - 1, i - 1) = " "
                            THEN " " ELSE ""
                 IN SplitJoin(s, i + 1, acc \o sep \o ch)

SimplifyWhitespace(s) == SplitJoin(s, 1, "")

\* Atta._get_uri: "" for None, for an object exposing no URI, and when the
\* read keeps failing past the retry limit (fault).
GetUri(p, document, fault) ==
    IF document \notin Docs \/ fault THEN "" ELSE p[document].uri

\* Atta._get_title.
GetTitle(p, obj, simplify_whitespace) ==
    IF obj = None THEN ""
    ELSE IF simplify_whitespace THEN SimplifyWhitespace(TitleOf(p, obj))
    ELSE TitleOf(p, obj)

\* _is_document of the adapter in use.
IsDocument(c, p, obj, fault) ==
    IF obj = None THEN FALSE
    ELSE IF c.api = "ATK" THEN obj \in Docs /\ GetUri(p, obj, fault) # ""
    ELSE obj \in Docs

\* Atta._find_descendant, for a predicate given as the set of objects satisfying it.
RECURSIVE FindDescendant(_, _)
RECURSIVE FindInChildren(_, _, _)
FindDescendant(root, sat) ==
    IF root \in sat \/ root = None THEN root
    ELSE FindInChildren(ChildrenOf(root), 1, sat)

FindInChildren(children, i, sat) ==
    IF i > Len(children) THEN None
    ELSE LET descendant == FindDescendant(children[i], sat)
         IN IF Truthy(descendant) THEN descendant
            ELSE FindInChildren(children, i + 1, sat)

\* The windows of the running applications, in search order.
RECURSIVE WindowsFrom(_)
WindowsFrom(i) ==
    IF i > Len(RunningApplications) THEN << >>
    ELSE ChildrenOf(RunningApplications[i]) \o WindowsFrom(i + 1)

\* A slip: the window's title is read with its blanks as they are.
InTitleAsWritten(p, window, name) == StrContains(GetTitle(p, window, FALSE), name)

\* `name in self._get_title(window)`.
InTitle(p, window, name) == StrContains(GetTitle(p, window, TRUE), name)

RECURSIVE FirstWindowWith(_, _, _, _)
FirstWindowWith(p, windows, i, name) ==
    IF i > Len(windows) THEN None
    ELSE IF InTitle(p, windows[i], name) THEN windows[i]
    ELSE FirstWindowWith(p, windows, i + 1, name)

\* Atta._find_test_window.
FindTestWindow(a, p) ==
    LET name == a.next_test[1]
    IN IF ~Truthy(name) THEN None
       ELSE LET n == SimplifyWhitespace(name)
            IN IF Truthy(a.current_window)
                  /\ InTitle(p, a.current_window, n)
               THEN a.current_window
               ELSE FirstWindowWith(p, WindowsFrom(1), 1, n)

\* A slip: the URI read is not compared with the pending test's URL.
UriMatchAny(uri, test_uri) ==
    IF uri = "" THEN "" ELSE PyTrue

\* The value of `uri and uri == test_uri`.
UriMatch(uri, test_uri) ==
    IF uri = "" THEN "" ELSE IF uri = test_uri THEN PyTrue ELSE PyFalse

IsReadyResult(a, ret, did_latch, uri, title) ==
    [a |-> a, ret |-> ret, latch |-> did_latch, uri |-> uri, title |-> title]

\* A slip: the title read is not compared with the pending test's name.
TitleMatchAny(name, test_name) == PyTrue

\* The value of `name == test_name`.
TitleMatch(name, test_name) == IF name = test_name THEN PyTrue ELSE PyFalse

\* The document is_ready examines once it has found _ready false: the one
\* passed, else the current one, else (without load notifications) the first
\* document below the test window.
IsReadyDocument(a, c, p, document, fault) ==
    LET doc0 == IF Truthy(document) THEN document ELSE a.current_document
    IN IF doc0 = None /\ ~c.load_notifications
       THEN FindDescendant(FindTestWindow(a, p),
                           {o \in Elements : IsDocument(c, p, o, fault.find)})
       ELSE doc0

\* Atta.is_ready(document) from `document = document or self._current_document`
\* on, that is, once _ready has been found false.
IsReadyCheck(a, c, p, document, fault) ==
    LET doc0 == IF Truthy(document) THEN document ELSE a.current_document
        search == doc0 = None /\ ~c.load_notifications
        window == IF search THEN FindTestWindow(a, p) ELSE a.current_window
        doc == IsReadyDocument(a, c, p, document, fault)
        a1 == [a EXCEPT !.current_window = window]
    IN IF doc = None THEN IsReadyResult(a1, FALSE, FALSE, "", "")
       ELSE
       LET test_name == a.next_test[1]
           test_uri == a.next_test[2]
           uri == GetUri(p, doc, fault.uri)
           r1 == UriMatch(uri, test_uri)
       IN IF Truthy(r1)
          THEN IsReadyResult([a1 EXCEPT !.ready = r1, !.current_document = doc],
                             TRUE, TRUE, uri, "")
          ELSE
          LET by_title == ~Truthy(uri) /\ Truthy(test_name)
              name == GetTitle(p, doc, FALSE)
              r2 == IF by_title THEN TitleMatch(name, test_name) ELSE r1
          IN IF Truthy(r2)
             THEN IsReadyResult([a1 EXCEPT !.ready = r2, !.current_document = doc],
                                TRUE, TRUE, uri, name)
             ELSE IsReadyResult([a1 EXCEPT !.ready = r2], FALSE, FALSE, uri, "")

\* A slip: the early return for a session that is ready is missing.
IsReadyUnmemoized(a, c, p, document, fault) == IsReadyCheck(a, c, p, document, fault)

\* Atta.is_ready(document): the fields afterwards, the value returned, and
\* what was read of the document.  fault.find / fault.uri say whether the URI
\* read made by _is_document / by is_ready itself fails.
IsReady(a, c, p, document, fault) ==
    IF Truthy(a.ready) THEN IsReadyResult(a, TRUE, FALSE, "", "")
    ELSE IsReadyCheck(a, c, p, document, fault)

\* The lookups Atta.is_ready(document) makes on the platform, by the method
\* that makes them.
IsReadyQueries(a, c, p, document, fault) ==
    IF Truthy(a.ready) THEN {}
    ELSE
    LET doc0 == IF Truthy(document) THEN document ELSE a.current_document
        doc == IsReadyDocument(a, c, p, document, fault)
        uri == GetUri(p, doc, fault.uri)
    IN (IF doc0 = None /\ ~c.load_notifications
        THEN {"_find_test_window", "_find_descendant"} ELSE {})
       \cup (IF doc = None THEN {} ELSE {"_get_uri"})
       \cup (IF /\ doc # None
                /\ ~Truthy(UriMatch(uri, a.next_test[2]))
                /\ ~Truthy(uri)
                /\ Truthy(a.next_test[1])
             THEN {"_get_title"} ELSE {})

\* What a call of is_ready is remembered by: the value returned, the document
\* examined, the URI read from it, and the lookups made.
IsReadyCall(a, c, p, document, fault) ==
    [ret |-> IsReady(a, c, p, document, fault).ret,
     doc |-> IF Truthy(a.ready) THEN None ELSE IsReadyDocument(a, c, p, document, fault),
     uri |-> IsReady(a, c, p, document, fault).uri,
     queries |-> IsReadyQueries(a, c, p, document, fault)]

\* A slip: the early return for an unchanged (name, url) is missing.
StartTestRunAlwaysResets(a, name, url) ==
    [a EXCEPT !.ready = PyFalse, !.next_test = <<name, url>>]

\* Atta.start_test_run(name, url).
StartTestRun(a, name, url) ==
    IF a.next_test = <<name, url>> THEN a
    ELSE [a EXCEPT !.ready = PyFalse, !.next_test = <<name, url>>]

\* Atta.end_test_run().
EndTestRun(a) ==
    [a EXCEPT !.current_document = None,
              !.next_test = <<None, "">>,
              !.ready = PyFalse]

\* The bug URIs get_bug may file a failure under, in sorted() order, and
\* what a lookup of one finds: whether the page opens, the <title> of the
\* page, and the state and title the tracker's API reports ("" and None when
\* the second request fails or reports no state).
BugA == "https://bugs.example.org/show_bug.cgi?id=1"
BugB == "https://github.com/o/r/issues/2"
BugOrder == <<BugA, BugB>>
BugUris == {BugOrder[i] : i \in 1..Len(BugOrder)}
NoLookups == [u \in BugUris |-> 0]

Unreachable == [page |-> FALSE, title |-> None, state |-> "", api_title |-> None]
NoDetails == [page |-> TRUE, title |-> None, state |-> "", api_title |-> None]
Found == [page |-> TRUE, title |-> "Bug 1", state |-> "NEW", api_title |-> "Crash"]
LookupOutcomes == {Unreachable, NoDetails, Found}

\* dict.get(k)
DictLookup(d, k) == IF k \in DOMAIN d THEN d[k] ELSE None

\* self._bugs[bug_uri] = details
CacheDetails(bugs, bug_uri, details) ==
    [u \in DOMAIN bugs \cup {bug_uri} |-> IF u = bug_uri THEN details ELSE bugs[u]]

\* Atta.get_bug_details(bug_uri) when the network gives `got`: the fields
\* afterwards, the details returned and the number of lookups made.
GetBugDetails(a, bug_uri, got) ==
    IF DictLookup(a.bugs, bug_uri) # None
    THEN [a |-> a, details |-> DictLookup(a.bugs, bug_uri), lookups |-> 0]
    ELSE IF ~got.page THEN [a |-> a, details |-> "", lookups |-> 1]
    ELSE LET details == IF got.state = "" THEN got.title
                        ELSE "[" \o got.state \o "] "
                             \o (IF got.api_title # None THEN got.api_title
                                 ELSE got.title)
         IN [a |-> [a EXCEPT !.bugs = CacheDetails(@, bug_uri, details)],
             details |-> details, lookups |-> 1]

\* A slip: every recorded entry is counted, repeated or not.
SetLenCountingRepeats(x) == Len(x)

\* len(set(x))
SetLen(x) == Cardinality({x[i] : i \in 1..Len(x)})

\* sum(map(lambda x: len(set(x)), result.values())) over the files given.
RECURSIVE NAssertions(_, _)
NAssertions(result, files) ==
    IF files = {} THEN 0
    ELSE LET f == CHOOSE f \in files : TRUE
         IN SetLen(result[f]) + NAssertions(result, files \ {f})

\* results.pop(key), for a key that may be absent.
Pop(results, key) == [k \in DOMAIN results \ {key} |-> results[k]]

\* output(key): the line it logs, as the key, the counts and the bug details.
Output(results, key, details) ==
    IF key \in DOMAIN results
    THEN [key |-> key, details |-> details,
          n_assertions |-> NAssertions(results[key], DOMAIN results[key]),
          n_files |-> Cardinality(DOMAIN results[key])]
    ELSE [key |-> key, details |-> details, n_assertions |-> 0, n_files |-> 0]

\* The loop `for bug in bugs` of log_results_summary from position i on.
RECURSIVE SummariseBugs(_, _, _, _, _, _, _)
SummariseBugs(a, results, bugs, i, got, lines, lookups) ==
    IF i > Len(bugs)
    THEN [a |-> a, results |-> results, lines |-> lines, lookups |-> lookups]
    ELSE LET d == GetBugDetails(a, bugs[i], got[bugs[i]])
         IN SummariseBugs(d.a, Pop(results, bugs[i]), bugs, i + 1, got,
                          Append(lines, Output(results, bugs[i], d.details)),
                          IF d.lookups = 0 THEN lookups ELSE Append(lookups, bugs[i]))

\* Atta.log_results_summary(clear_results) when the network gives got[bug]
\* for each bug: the fields afterwards, the lines logged and the bugs looked
\* up.  `results` is the dict self._results itself unless clear_results has
\* put a new one in its place, so what output() pops is popped from the
\* aggregate.
LogResultsSummary(a, clear_results, got) ==
    LET results == a.results
        popped == Pop(Pop(results, "PASS"), "FAIL")
        bugs == SelectSeq(BugOrder, LAMBDA k : k \in DOMAIN popped)
        done == SummariseBugs(a, popped, bugs, 1, got,
                              <<Output(results, "PASS", ""),
                                Output(Pop(results, "PASS"), "FAIL", "")>>, << >>)
    IN [a |-> [done.a EXCEPT !.results = IF clear_results THEN << >> ELSE done.results],
        lines |-> done.lines,
        lookups |-> done.lookups]

\* net after the lookups of the bugs in `lookups`.
Looked(n, lookups) ==
    [u \in BugUris |->
        n[u] + Cardinality({i \in 1..Len(lookups) : lookups[i] = u})]

\* Atta.shutdown(): clears ready and logs (and clears) the results summary.
Shutdown(a, got) == LogResultsSummary([a EXCEPT !.ready = PyFalse], TRUE, got)

\* A slip: the callback examines the notifying document although the
\* session is ready.
OnLoadCompleteUnlatched(a, c, p, source, fault, app_fault) ==
    IF a.next_test = <<None, "">> THEN IsReadyResult(a, FALSE, FALSE, "", "")
    ELSE IF c.api = "ATK"
            /\ (app_fault \/ ApplicationOf(source) = None
                \/ AppName(ApplicationOf(source)) = "WebKitWebProcess")
    THEN IsReadyResult(a, FALSE, FALSE, "", "")
    ELSE LET r == IsReadyCheck(a, c, p, source, fault)
         IN IF r.ret
            THEN [r EXCEPT !.a.current_application = ApplicationOf(source)]
            ELSE r

\* A slip: the web-process filter of the ATK adapter made by every adapter.
OnLoadCompleteFilteringAll(a, c, p, source, fault, app_fault) ==
    IF a.next_test = <<None, "">> THEN IsReadyResult(a, FALSE, FALSE, "", "")
    ELSE IF \/ c.api = "ATK" /\ (app_fault \/ ApplicationOf(source) = None)
            \/ ApplicationOf(source) # None
               /\ AppName(ApplicationOf(source)) = "WebKitWebProcess"
    THEN IsReadyResult(a, FALSE, FALSE, "", "")
    ELSE LET r == IsReady(a, c, p, source, fault)
         IN IF r.ret
            THEN [r EXCEPT !.a.current_application = ApplicationOf(source)]
            ELSE r

\* AtkAtta._on_load_complete / AxapiAtta._on_load_complete for a notification
\* from document `source`.  app_fault: the "application" or "name" property
\* read returned None (ATK only).
OnLoadComplete(a, c, p, source, fault, app_fault) ==
    IF a.next_test = <<None, "">> THEN IsReadyResult(a, FALSE, FALSE, "", "")
    ELSE IF c.api = "ATK"
            /\ (app_fault \/ ApplicationOf(source) = None
                \/ AppName(ApplicationOf(source)) = "WebKitWebProcess")
    THEN IsReadyResult(a, FALSE, FALSE, "", "")
    ELSE LET r == IsReady(a, c, p, source, fault)
         IN IF r.ret
            THEN [r EXCEPT !.a.current_application = ApplicationOf(source)]
            ELSE r

(***************************************************************************)
(* Event listening.                                                        *)
(***************************************************************************)
EventTypes == {"focus", "change"}

\* _get_parent: None when obj has no parent or when the read fails for it.
GetParent(obj, parent_fault) ==
    IF obj = parent_fault THEN None ELSE ParentOf(obj)

\* Atta._find_ancestor with pred = (x == target): the loop from `parent`.
RECURSIVE AncestorFrom(_, _, _)
AncestorFrom(parent, target, parent_fault) ==
    IF ~Truthy(parent) THEN None
    ELSE IF parent = target THEN parent
    ELSE AncestorFrom(GetParent(parent, parent_fault), target, parent_fault)

FindAncestor(obj, target, parent_fault) ==
    IF obj = None THEN None
    ELSE AncestorFrom(GetParent(obj, parent_fault), target, parent_fault)

\* A slip: the types are added to those already monitored.
StartListenAppending(a, event_types) ==
    [a EXCEPT !.monitored_event_types = @ \o event_types, !.event_history = << >>]

\* A slip: the test that obj lies in the current document is dropped.
InAnyDocument(a, obj, parent_fault) == TRUE

\* Atta._in_current_document(obj).
InCurrentDocument(a, obj, parent_fault) ==
    IF ~Truthy(a.current_document) THEN FALSE
    ELSE IF obj = a.current_document THEN TRUE
    ELSE FindAncestor(obj, a.current_document, parent_fault) # None

\* The dict _on_test_event appends for a platform event.
Event(source, type) == [obj |-> source, type |-> type]

\* AtkAtta._on_test_event / AxapiAtta._on_test_event.
OnTestEvent(a, source, type, parent_fault) ==
    IF ~InCurrentDocument(a, source, parent_fault) THEN a
    ELSE [a EXCEPT !.event_history = Append(@, Event(source, type))]

\* The platform's registrations after _register_listener for each type in turn.
RegisterAll(reg, event_types) ==
    reg \cup {event_types[i] : i \in 1..Len(event_types)}

\* The platform's registrations after _deregister_listener for each type in turn.
DeregisterAll(reg, event_types) ==
    reg \ {event_types[i] : i \in 1..Len(event_types)}

\* The loop of start_listen from position i on: the types monitored and the
\* types _register_listener has been called with, in the order of the calls.
RECURSIVE StartListenFrom(_, _, _, _)
StartListenFrom(event_types, i, monitored, calls) ==
    IF i > Len(event_types) THEN [monitored |-> monitored, calls |-> calls]
    ELSE StartListenFrom(event_types, i + 1, Append(monitored, event_types[i]),
                         Append(calls, event_types[i]))

\* Atta.start_listen(event_types): the fields afterwards.
StartListen(a, event_types) ==
    [a EXCEPT !.monitored_event_types =
                  StartListenFrom(event_types, 1, << >>, << >>).monitored,
              !.event_history = << >>]

\* The types start_listen calls _register_listener with, in order.
RegisterCalls(event_types) == StartListenFrom(event_types, 1, << >>, << >>).calls

\* A slip: the event buffer is kept when listening stops.
StopListenKeepingBuffer(a) == [a EXCEPT !.monitored_event_types = << >>]

\* Atta.stop_listen(): the fields afterwards.
StopListen(a) ==
    [a EXCEPT !.monitored_event_types = << >>, !.event_history = << >>]

\* The types stop_listen calls _deregister_listener with, in order.
DeregisterCalls(a) ==
    [i \in 1..Len(a.monitored_event_types) |-> a.monitored_event_types[i]]

(***************************************************************************)
(* Event correlation.  An assertion is the 4-tuple <<type, name, verb,     *)
(* value>>; a Python dict is the sequence of its <<key, value>> items in   *)
(* insertion order.                                                        *)
(***************************************************************************)
DictKeys(d) == {d[i][1] : i \in 1..Len(d)}

DictGet(d, k) == d[CHOOSE i \in 1..Len(d) : d[i][1] = k][2]

\* d[k] = v
DictSet(d, k, v) ==
    IF k \in DictKeys(d)
    THEN [i \in 1..Len(d) |-> IF d[i][1] = k THEN <<k, v>> ELSE d[i]]
    ELSE Append(d, <<k, v>>)

\* is_new_event
IsNewEvent(x) == Len(x) > 0 /\ x[1] = "event" /\ x[2] = "type"

\* A slip: indices.append(len(assertions)) is missing.
NewEventIndicesOnly(assertions) ==
    {i \in 1..Len(assertions) : IsNewEvent(assertions[i])}

\* indices, as 1-based positions: the new events and the position past the end.
NewEventIndices(assertions) ==
    {i \in 1..Len(assertions) : IsNewEvent(assertions[i])} \cup {Len(assertions) + 1}

\* The loop of _create_platform_assertions from position i on.
RECURSIVE CorrelateFrom(_, _, _, _, _)
CorrelateFrom(assertions, i, indices, properties, platform_assertions) ==
    IF i > Len(assertions) THEN platform_assertions
    ELSE
    LET x == assertions[i]
    IN IF x[1] # "event"
       THEN CorrelateFrom(assertions, i + 1, indices, properties,
                          Append(platform_assertions, x))
       ELSE
       LET props == DictSet(properties, x[2], x[4])
       IN IF i + 1 \in indices
          THEN CorrelateFrom(assertions, i + 1, indices, << >>,
                   Append(platform_assertions, <<"event", "event", "contains", props>>))
          ELSE CorrelateFrom(assertions, i + 1, indices, props, platform_assertions)

\* Atta._create_platform_assertions(assertions).
CreatePlatformAssertions(assertions) ==
    CorrelateFrom(assertions, 1, NewEventIndices(assertions), << >>, << >>)

(***************************************************************************)
(* Running assertions and aggregating their results.                       *)
(***************************************************************************)
\* The element id the platform reports for an object ("" when it has none).
IdOf(obj) ==
    CASE obj = "e1" -> "id1"
      [] obj = "e2" -> "id2"
      [] obj = "f1" -> "id1"
      [] OTHER -> ""

\* Atta._get_element_with_id(root, element_id).
GetElementWithId(root, element_id) ==
    IF element_id = "" THEN None
    ELSE FindDescendant(root, {o \in Elements : IdOf(o) = element_id})

\* parse.urlsplit(url).path for "scheme://host/path" and for a bare path.
UrlPath(url) ==
    LET seps == {i \in 1..(Len(url) - 2) : SubSeq(url, i, i + 2) = "://"}
    IN IF seps = {} THEN url
       ELSE LET k == CHOOSE i \in seps : \A j \in seps : i <= j
                rest == SubSeq(url, k + 3, Len(url))
                slashes == {i \in 1..Len(rest) : SubSeq(rest, i, i) = "/"}
            IN IF slashes = {} THEN ""
               ELSE SubSeq(rest, CHOOSE i \in slashes : \A j \in slashes : i <= j,
                           Len(rest))

\* ", ".join of the items of a dict, as str(dict) prints them.
RECURSIVE DictItemsStr(_, _)
DictItemsStr(d, i) ==
    IF i > Len(d) THEN ""
    ELSE (IF i > 1 THEN ", " ELSE "")
         \o "'" \o d[i][1] \o "': '" \o d[i][2] \o "'" \o DictItemsStr(d, i + 1)

\* " ".join(map(str, assertion)); the value of a combined event assertion is a dict.
AssertionString(x) ==
    x[1] \o " " \o x[2] \o " " \o x[3] \o " "
         \o (IF x[1] = "event" THEN "{" \o DictItemsStr(x[4], 1) \o "}" ELSE x[4])

\* self._results after file_results.append(entry) under results[key][file].
AddResult(results, key, file, entry) ==
    LET status_results == IF key \in DOMAIN results THEN results[key] ELSE << >>
        file_results == IF file \in DOMAIN status_results
                        THEN status_results[file] ELSE << >>
        new_status == [f \in DOMAIN status_results \cup {file} |->
                          IF f = file THEN Append(file_results, entry)
                          ELSE status_results[f]]
    IN [k \in DOMAIN results \cup {key} |-> IF k = key THEN new_status ELSE results[k]]

\* "%s" % assertion, for the list an assertion is.
ListRepr(x) ==
    "['" \o x[1] \o "', '" \o x[2] \o "', '" \o x[3] \o "', "
         \o (IF x[1] = "event" THEN "{" \o DictItemsStr(x[4], 1) \o "}"
             ELSE "'" \o x[4] \o "'") \o "]"

\* What test.run() returns.
Ran(result, message) == [result |-> result, message |-> message, log |-> message]

\* A slip: an assertion without a test class is not failed.
VerdictUnchecked(x, test_class, ran) == ran

\* (result, message, log) of _run_test: a failure naming the assertion when
\* it has no test class, else what test.run() returns.
Verdict(x, test_class, ran) ==
    IF test_class = None
    THEN Ran("FAIL", "ERROR: " \o ListRepr(x) \o " is not a valid assertion")
    ELSE ran

\* A slip: the bug is asked for whatever the verdict.
AsksForBugAlways(test_class, result) == test_class # None

\* Whether _run_test calls test.get_bug(): there is a test, and it failed.
AsksForBug(test_class, result) == test_class # None /\ result = "FAIL"

\* Atta._run_test(obj, assertion), where test_class is what
\* _get_assertion_test_class finds, ran what test.run() returns and bug what
\* test.get_bug() returns: the fields after recording the result, the dict
\* returned, whether get_bug was called and the value of `bug` at the end.
RunTestWith(a, obj, x, test_class, ran, bug) ==
    LET ret == Verdict(x, test_class, ran)
        asked == AsksForBug(test_class, ret.result)
        filed == IF asked THEN bug ELSE ""
        key == IF filed # "" THEN filed ELSE ret.result
    IN [a |-> [a EXCEPT !.results = AddResult(@, key, UrlPath(a.next_test[2]),
                                              AssertionString(x))],
        ret |-> ret, asked |-> asked, bug |-> filed]

\* Atta._run_test(obj, assertion) for an assertion that has a test class and
\* whose failure has no bug filed: the fields after recording the result.
RunTest(a, obj, x, result) ==
    RunTestWith(a, obj, x, "AttaAssertion", Ran(result, ""), "").a

\* [self._run_test(obj, a) for a in to_run], from position i on.
RECURSIVE RunEach(_, _, _, _, _, _)
RunEach(a, obj, to_run, i, result, statuses) ==
    IF i > Len(to_run) THEN [a |-> a, results |-> statuses]
    ELSE RunEach(RunTest(a, obj, to_run[i], result), obj, to_run, i + 1, result,
                 Append(statuses, result))

\* Atta.run_tests after is_ready, whose outcome is r: the fields afterwards
\* and the dict it returns.
RunTestsWhen(r, obj_id, assertions, result) ==
    IF ~r.ret
    THEN [r |-> r, a |-> r.a, status |-> "ERROR", message |-> "ATTA not ready",
          obj |-> None, results |-> << >>]
    ELSE LET to_run == CreatePlatformAssertions(assertions)
             obj == GetElementWithId(r.a.current_document, obj_id)
             ran == RunEach(r.a, obj, to_run, 1, result, << >>)
         IN [r |-> r, a |-> ran.a, status |-> "OK", message |-> "",
             obj |-> obj, results |-> ran.results]

\* Atta.run_tests(obj_id, assertions) of an enabled adapter.
RunTests(a, c, p, obj_id, assertions, result) ==
    RunTestsWhen(IsReady(a, c, p, None, [find |-> FALSE, uri |-> FALSE]),
                 obj_id, assertions, result)

\* What run_tests returns, with the fields afterwards, the element found and
\* the assertions evaluated.
RunTestsReturn(a, status, message, results, obj, evaluated) ==
    [a |-> a, status |-> status, message |-> message, results |-> results,
     obj |-> obj, evaluated |-> evaluated]

\* A slip: the assertions are run whether the adapter is ready or not.
NotReadyIgnored(r) == FALSE

\* not self.is_ready(), r being what is_ready came to
NotReady(r) == ~r.ret

\* A slip: nothing is evaluated when the element is not found.
ToEvaluateIfFound(obj, to_run) == IF obj = None THEN << >> ELSE to_run

\* The assertions `[... for a in to_run]` evaluates, found the element or not.
ToEvaluate(obj, to_run) == to_run

\* [self._run_test(obj, a) for a in to_run] from position i on, verdicts[i]
\* being what test.run() returns for to_run[i]: the fields afterwards and
\* the dicts returned.
RECURSIVE RunEachRan(_, _, _, _, _, _)
RunEachRan(a, obj, to_run, i, verdicts, results) ==
    IF i > Len(to_run) THEN [a |-> a, results |-> results]
    ELSE LET r == RunTestWith(a, obj, to_run[i], "AttaAssertion", verdicts[i], "")
         IN RunEachRan(r.a, obj, to_run, i + 1, verdicts, Append(results, r.ret))

\* Atta.run_tests(obj_id, assertions) of an adapter that is enabled or not,
\* r being what is_ready comes to when it is called.
RunTestsOf(enabled, a, r, obj_id, assertions, verdicts) ==
    IF ~enabled
    THEN RunTestsReturn(a, "ERROR", "ATTA not enabled", << >>, None, << >>)
    ELSE IF NotReady(r)
    THEN RunTestsReturn(r.a, "ERROR", "ATTA not ready", << >>, None, << >>)
    ELSE LET to_run == CreatePlatformAssertions(assertions)
             obj == GetElementWithId(r.a.current_document, obj_id)
             ran == RunEachRan(r.a, obj, ToEvaluate(obj, to_run), 1, verdicts, << >>)
         IN RunTestsReturn(ran.a, "OK", "", ran.results, obj, ToEvaluate(obj, to_run))

(***************************************************************************)
(* AtkAtta.get_client_side_method.  A method is named by its symbol; what   *)
(* the repository finds for an interface name (info) is whether it has a   *)
(* client-side interface of that name and the symbols of its methods, in   *)
(* the order the repository gives them.                                    *)
(***************************************************************************)
Info(found, methods) == [found |-> found, methods |-> methods]

\* str.replace(old, new): every occurrence, left to right, not overlapping.
RECURSIVE ReplaceFrom(_, _, _, _)
ReplaceFrom(s, i, old, new) ==
    IF i > Len(s) THEN ""
    ELSE IF i + Len(old) - 1 <= Len(s) /\ SubSeq(s, i, i + Len(old) - 1) = old
    THEN new \o ReplaceFrom(s, i + Len(old), old, new)
    ELSE SubSeq(s, i, i) \o ReplaceFrom(s, i + 1, old, new)

StrReplace(s, old, new) == ReplaceFrom(s, 1, old, new)

\* x in list
InList(x, list) == \E i \in 1..Len(list) : list[i] = x

\* The dict `mappings`, as its items.
Mappings ==
    <<<<"atk_selection_add_selection", "atspi_selection_select_child">>,
      <<"atk_selection_ref_selection", "atspi_selection_get_selected_child">>,
      <<"atk_selection_remove_selection", "atspi_selection_deselect_selected_child">>,
      <<"atk_selection_select_all_selection", "atspi_selection_select_all">>,
      <<"atk_value_set_value", "atspi_value_set_current_value">>,
      <<"atk_value_get_increment", "atspi_value_get_minimum_increment">>>>

\* mappings.get(server_side_symbol)
Mapped(server_side_symbol) ==
    IF server_side_symbol \in DictKeys(Mappings)
    THEN DictGet(Mappings, server_side_symbol) ELSE None

\* A slip: the collapsed name is returned, not the client-side symbol it matches.
CollapsedMatchUnresolved(candidate_symbol, client_side_symbols) ==
    IF InList(StrReplace(candidate_symbol, "_", ""),
              [i \in 1..Len(client_side_symbols) |->
                  StrReplace(client_side_symbols[i], "_", "")])
    THEN StrReplace(candidate_symbol, "_", "")
    ELSE None

\* The client-side symbol at matches.index(collapsed), None without a match.
CollapsedMatch(candidate_symbol, client_side_symbols) ==
    LET collapsed == StrReplace(candidate_symbol, "_", "")
        matches == [i \in 1..Len(client_side_symbols) |->
                       StrReplace(client_side_symbols[i], "_", "")]
    IN IF InList(collapsed, matches)
       THEN client_side_symbols[CHOOSE i \in 1..Len(matches) :
                                   /\ matches[i] = collapsed
                                   /\ \A j \in 1..(i - 1) : matches[j] # collapsed]
       ELSE None

\* A slip: the first symbol with "get_n_" in it is taken when there are several.
CountMatchFirst(server_side_symbol, client_side_symbols) ==
    IF StrContains(server_side_symbol, "_get_") /\ StrContains(server_side_symbol, "_count")
    THEN LET matches == SelectSeq(client_side_symbols, LAMBDA x : StrContains(x, "get_n_"))
         IN IF Len(matches) >= 1 THEN matches[1] ELSE None
    ELSE None

\* The only client-side symbol with "get_n_" in it, for a server-side symbol
\* with "_get_" and "_count" in it; None otherwise.
CountMatch(server_side_symbol, client_side_symbols) ==
    IF StrContains(server_side_symbol, "_get_") /\ StrContains(server_side_symbol, "_count")
    THEN LET matches == SelectSeq(client_side_symbols, LAMBDA x : StrContains(x, "get_n_"))
         IN IF Len(matches) = 1 THEN matches[1] ELSE None
    ELSE None

\* A slip: the table of irregular pairs is consulted after the substitution.
GetClientSideMethodSubstitutionFirst(server_side_symbol, info) ==
    IF ~info.found THEN None
    ELSE
    LET client_side_symbols == info.methods
        mapped == Mapped(server_side_symbol)
        candidate_symbol == StrReplace(server_side_symbol, "atk", "atspi")
    IN IF InList(candidate_symbol, client_side_symbols) THEN candidate_symbol
       ELSE IF InList(mapped, client_side_symbols) THEN mapped
       ELSE IF InList(StrReplace(candidate_symbol, "_ref_", "_get_"), client_side_symbols)
       THEN StrReplace(candidate_symbol, "_ref_", "_get_")
       ELSE IF InList(StrReplace(candidate_symbol, "_ref_at", "_get_accessible_at"),
                      client_side_symbols)
       THEN StrReplace(candidate_symbol, "_ref_at", "_get_accessible_at")
       ELSE IF CollapsedMatch(candidate_symbol, client_side_symbols) # None
       THEN CollapsedMatch(candidate_symbol, client_side_symbols)
       ELSE CountMatch(server_side_symbol, client_side_symbols)

\* AtkAtta.get_client_side_method(server_side_method) for the method with
\* symbol server_side_symbol, info being what the repository finds for the
\* name of its interface.
GetClientSideMethod(server_side_symbol, info) ==
    IF ~info.found THEN None
    ELSE
    LET client_side_symbols == info.methods
        mapped == Mapped(server_side_symbol)
        candidate_symbol == StrReplace(server_side_symbol, "atk", "atspi")
    IN IF InList(mapped, client_side_symbols) THEN mapped
       ELSE IF InList(candidate_symbol, client_side_symbols) THEN candidate_symbol
       ELSE IF InList(StrReplace(candidate_symbol, "_ref_", "_get_"), client_side_symbols)
       THEN StrReplace(candidate_symbol, "_ref_", "_get_")
       ELSE IF InList(StrReplace(candidate_symbol, "_ref_at", "_get_accessible_at"),
                      client_side_symbols)
       THEN StrReplace(candidate_symbol, "_ref_at", "_get_accessible_at")
       ELSE IF CollapsedMatch(candidate_symbol, client_side_symbols) # None
       THEN CollapsedMatch(candidate_symbol, client_side_symbols)
       ELSE CountMatch(server_side_symbol, client_side_symbols)

(***************************************************************************)
(* The request handler.  A request is its path, whether its body fails to  *)
(* parse, and the fields of the JSON object it carries.                    *)
(***************************************************************************)
Timeout == 10     \* _timeout = 5, in units of the 0.5 the polling loop sleeps
PollSleep == 1    \* time.sleep(0.5)

Request(path, malformed, fields) ==
    [path |-> path, malformed |-> malformed, fields |-> fields]

RECURSIVE JoinStrings(_, _, _)
JoinStrings(strings, sep, i) ==
    IF i > Len(strings) THEN ""
    ELSE (IF i > 1 THEN sep ELSE "") \o strings[i] \o JoinStrings(strings, sep, i + 1)

\* The errors get_params collects for params[i..].
RECURSIVE MissingFrom(_, _, _)
MissingFrom(submission, params, i) ==
    IF i > Len(params) THEN << >>
    ELSE (IF params[i] \in DOMAIN submission THEN << >>
          ELSE <<"Parameter " \o params[i] \o " not found">>)
         \o MissingFrom(submission, params, i + 1)

\* AttaRequestHandler.get_params(*params): the "error" entry of what it returns.
GetParamsError(req, params) ==
    LET submission == IF req.malformed THEN << >> ELSE req.fields
        errors == (IF req.malformed THEN <<"Traceback">> ELSE << >>)
                  \o MissingFrom(submission, params, 1)
    IN JoinStrings(errors, "; ", 1)

\* params.get(param, default)
GetParam(req, param, default) ==
    IF ~req.malformed /\ param \in DOMAIN req.fields THEN req.fields[param] ELSE default

\* What _send_response writes: the HTTP status code and the JSON body.
Response(code, status, statusText, results) ==
    [code |-> code, status |-> status, statusText |-> statusText, results |-> results]

\* What a handler leaves behind.
Handled(a, reg, running_tests, responses, latch) ==
    [a |-> a, reg |-> reg, latch |-> latch,
     http |-> [running_tests |-> running_tests, responses |-> responses]]

\* The loop `while self._wait(start_time, self._atta.is_ready, response)` when
\* nothing else runs meanwhile: is_ready is polled until it returns True or
\* the elapsed time, PollSleep more after each poll, exceeds Timeout.
RECURSIVE PollReady(_, _, _, _, _)
PollReady(a, c, p, elapsed, latch) ==
    CHOOSE polled \in
        {LET l == IF r.latch THEN [uri |-> r.uri, title |-> r.title] ELSE latch
         IN IF r.ret THEN [a |-> r.a, timed_out |-> FALSE, latch |-> l]
            ELSE IF elapsed > Timeout THEN [a |-> r.a, timed_out |-> TRUE, latch |-> l]
            ELSE PollReady(r.a, c, p, elapsed + PollSleep, l)
         : r \in {IsReady(a, c, p, None, [find |-> FALSE, uri |-> FALSE])}} : TRUE

\* The end of AttaRequestHandler.start_test_run: the loop has ended as polled
\* says, and the is_ready call after it came out as final.
HandleStartAnswer(polled, final, reg) ==
    Handled(final.a, reg, FALSE,
            (IF polled.timed_out
             THEN <<Response(500, "ERROR",
                             "Timeout waiting for is_ready() to return True", << >>)>>
             ELSE << >>)
            \o (IF final.ret THEN <<Response(200, "READY", "", << >>)>> ELSE << >>),
            IF final.latch THEN [uri |-> final.uri, title |-> final.title]
            ELSE polled.latch)

\* AttaRequestHandler.start_test_run once the polling loop has ended.
HandleStartPolled(polled, reg, c, p) ==
    HandleStartAnswer(polled,
                      IsReady(polled.a, c, p, None, [find |-> FALSE, uri |-> FALSE]),
                      reg)

\* AttaRequestHandler.start_test_run.
HandleStart(a, reg, c, p, req, latch) ==
    IF GetParamsError(req, <<"test", "url">>) # ""
    THEN Handled(a, reg, FALSE,
                 <<Response(200, "ERROR", GetParamsError(req, <<"test", "url">>), << >>)>>,
                 latch)
    ELSE HandleStartPolled(
             PollReady(StartTestRun(a, GetParam(req, "test", None),
                                    GetParam(req, "url", None)),
                       c, p, 0, latch),
             reg, c, p)

\* AttaRequestHandler.start_listen.
HandleStartListen(a, reg, req, running_tests, latch) ==
    LET error == GetParamsError(req, <<"events">>)
    IN IF error # ""
       THEN Handled(a, reg, running_tests, <<Response(200, "ERROR", error, << >>)>>, latch)
       ELSE Handled(StartListen(a, GetParam(req, "events", << >>)),
                    RegisterAll(reg, GetParam(req, "events", << >>)),
                    running_tests, <<Response(200, "READY", "", << >>)>>, latch)

\* The end of AttaRequestHandler.run_tests: run_tests of the adapter gave ran.
HandleTestRan(ran, reg, error, latch) ==
    Handled(ran.a, reg, TRUE,
            <<Response(200, ran.status, IF ran.results = << >> THEN error ELSE "",
                       ran.results)>>,
            IF ran.r.latch THEN [uri |-> ran.r.uri, title |-> ran.r.title] ELSE latch)

\* AttaRequestHandler.run_tests.
HandleTest(a, reg, c, p, req, result, latch) ==
    HandleTestRan(RunTests(a, c, p, GetParam(req, "id", ""),
                           GetParam(req, "data", << >>), result),
                  reg, GetParamsError(req, <<"title", "id", "data">>), latch)

\* AttaRequestHandler.stop_listen.
HandleStopListen(a, reg, running_tests, latch) ==
    Handled(StopListen(a), DeregisterAll(reg, a.monitored_event_types),
            running_tests, <<Response(200, "READY", "", << >>)>>, latch)

\* AttaRequestHandler.end_test_run.
HandleEnd(a, reg, latch) ==
    Handled(EndTestRun(a), reg, FALSE, <<Response(200, "DONE", "", << >>)>>, latch)

\* send_error(400, ...): the plain-text answer to a path no handler owns.
HandleUnknown(a, reg, req, running_tests, latch) ==
    Handled(a, reg, running_tests,
            <<Response(400, "", "UNHANDLED PATH: " \o req.path, << >>)>>, latch)

\* str.endswith
EndsWith(s, suffix) ==
    Len(s) >= Len(suffix) /\ SubSeq(s, Len(s) - Len(suffix) + 1, Len(s)) = suffix

\* A slip: the start handler is chosen for a path that has "start" anywhere.
DispatchByContains(a, reg, c, p, h, req, result, latch) ==
    IF StrContains(req.path, "start") THEN HandleStart(a, reg, c, p, req, latch)
    ELSE IF EndsWith(req.path, "startlisten")
    THEN HandleStartListen(a, reg, req, h.running_tests, latch)
    ELSE IF EndsWith(req.path, "test") THEN HandleTest(a, reg, c, p, req, result, latch)
    ELSE IF EndsWith(req.path, "stoplisten")
    THEN HandleStopListen(a, reg, h.running_tests, latch)
    ELSE IF EndsWith(req.path, "end") THEN HandleEnd(a, reg, latch)
    ELSE HandleUnknown(a, reg, req, h.running_tests, latch)

\* AttaRequestHandler.dispatch; result is what test.run() finds should the
\* request run assertions.
Dispatch(a, reg, c, p, h, req, result, latch) ==
    IF EndsWith(req.path, "start") THEN HandleStart(a, reg, c, p, req, latch)
    ELSE IF EndsWith(req.path, "startlisten")
    THEN HandleStartListen(a, reg, req, h.running_tests, latch)
    ELSE IF EndsWith(req.path, "test") THEN HandleTest(a, reg, c, p, req, result, latch)
    ELSE IF EndsWith(req.path, "stoplisten")
    THEN HandleStopListen(a, reg, h.running_tests, latch)
    ELSE IF EndsWith(req.path, "end") THEN HandleEnd(a, reg, latch)
    ELSE HandleUnknown(a, reg, req, h.running_tests, latch)

(***************************************************************************)
(* The same code one statement at a time.  The HTTP thread runs the        *)
(* request handlers and the listener thread the platform's callbacks; no   *)
(* lock is taken, so a step is one read or write of a field of the adapter.*)
(* A thread is where it is (pc), where is_ready returns to (after), and    *)
(* the locals of is_ready: document, (test_name, test_uri), uri, and ret,  *)
(* the value is_ready returned.  Time is counted in sleeps of the polling  *)
(* loop; elapsed is time.time() - start_time.                              *)
(***************************************************************************)
MaxReadyCost == 1   \* the most time one is_ready call takes

IdleThread ==
    [pc |-> "idle", after |-> "idle", doc |-> None, test |-> <<None, "">>,
     uri |-> "", ret |-> FALSE]

IdleHttp ==
    [pc |-> "idle", after |-> "idle", doc |-> None, test |-> <<None, "">>,
     uri |-> "", ret |-> FALSE,
     req |-> [path |-> "", test |-> None, url |-> ""],
     elapsed |-> 0, slept |-> 0, cost |-> 0, served |-> 0]

IdleListener ==
    [pc |-> "idle", after |-> "idle", doc |-> None, test |-> <<None, "">>,
     uri |-> "", ret |-> FALSE, source |-> None, handled |-> 0]

\* The statements of is_ready; each reads or writes one shared field.
IsReadyPcs ==
    {"is_ready", "document", "next_test", "set_ready", "check_ready",
     "set_ready_by_title", "check_ready_again", "set_document"}

\* The call self.is_ready(document), to come back at `after`.
CallIsReady(t, document, after) ==
    [t EXCEPT !.pc = "is_ready", !.after = after, !.doc = document,
              !.test = <<None, "">>, !.uri = "", !.ret = FALSE, !.cost = 0]

\* return ret
ReturnFromIsReady(t, ret) ==
    [t EXCEPT !.pc = t.after, !.ret = ret, !.doc = None, !.test = <<None, "">>,
              !.uri = ""]

\* One statement of Atta.is_ready run by thread t: the thread and the fields after it.
IsReadyStep(t, a, c, p) ==
    CASE t.pc = "is_ready" ->
            IF Truthy(a.ready) THEN [t |-> ReturnFromIsReady(t, TRUE), a |-> a]
            ELSE [t |-> [t EXCEPT !.pc = "document"], a |-> a]
      [] t.pc = "document" ->
            LET doc0 == IF Truthy(t.doc) THEN t.doc ELSE a.current_document
                search == doc0 = None /\ ~c.load_notifications
                window == IF search THEN FindTestWindow(a, p) ELSE a.current_window
                isdoc == {o \in Elements : IsDocument(c, p, o, FALSE)}
                doc == IF search THEN FindDescendant(window, isdoc) ELSE doc0
                a1 == [a EXCEPT !.current_window = window]
            IN IF doc = None THEN [t |-> ReturnFromIsReady(t, FALSE), a |-> a1]
               ELSE [t |-> [t EXCEPT !.pc = "next_test", !.doc = doc], a |-> a1]
      [] t.pc = "next_test" ->
            [t |-> [t EXCEPT !.pc = "set_ready", !.test = a.next_test,
                             !.uri = GetUri(p, t.doc, FALSE)],
             a |-> a]
      [] t.pc = "set_ready" ->
            [t |-> [t EXCEPT !.pc = "check_ready"],
             a |-> [a EXCEPT !.ready = UriMatch(t.uri, t.test[2])]]
      [] t.pc = "check_ready" ->
            [t |-> [t EXCEPT !.pc = IF Truthy(a.ready) THEN "set_document"
                                   ELSE IF ~Truthy(t.uri) /\ Truthy(t.test[1])
                                   THEN "set_ready_by_title"
                                   ELSE "check_ready_again"],
             a |-> a]
      [] t.pc = "set_ready_by_title" ->
            [t |-> [t EXCEPT !.pc = "check_ready_again"],
             a |-> [a EXCEPT !.ready = PyBool(GetTitle(p, t.doc, FALSE) = t.test[1])]]
      [] t.pc = "check_ready_again" ->
            IF Truthy(a.ready) THEN [t |-> [t EXCEPT !.pc = "set_document"], a |-> a]
            ELSE [t |-> ReturnFromIsReady(t, FALSE), a |-> a]
      [] t.pc = "set_document" ->
            [t |-> ReturnFromIsReady(t, TRUE), a |-> [a EXCEPT !.current_document = t.doc]]

\* A slip: the timeout is taken to have passed when the elapsed time reaches it.
TimedOutOnReaching(elapsed) == elapsed >= Timeout

\* time.time() - start_time > self._timeout
TimedOut(elapsed) == elapsed > Timeout

\* One statement of the HTTP thread in AttaRequestHandler.start_test_run or
\* run_tests and what they call: the thread, the fields, the responses
\* written so far and a name for what the statement did.
HttpThreadStep(t, a, c, p, responses) ==
    CASE t.pc = "start_test_run" ->
            IF a.next_test = <<t.req.test, t.req.url>>
            THEN [t |-> CallIsReady(t, None, "wait"), a |-> a, responses |-> responses,
                  did |-> "same test"]
            ELSE [t |-> [t EXCEPT !.pc = "clear_ready"], a |-> a, responses |-> responses,
                  did |-> "new test"]
      [] t.pc = "clear_ready" ->
            [t |-> [t EXCEPT !.pc = "set_next_test"], a |-> [a EXCEPT !.ready = PyFalse],
             responses |-> responses, did |-> "write"]
      [] t.pc = "set_next_test" ->
            [t |-> CallIsReady(t, None, "wait"),
             a |-> [a EXCEPT !.next_test = <<t.req.test, t.req.url>>],
             responses |-> responses, did |-> "write"]
      [] t.pc \in IsReadyPcs ->
            LET r == IsReadyStep(t, a, c, p)
            IN [t |-> r.t, a |-> r.a, responses |-> responses,
                did |-> IF r.t.pc \in IsReadyPcs THEN "statement"
                        ELSE IF r.t.ret THEN "True" ELSE "False"]
      [] t.pc = "wait" ->
            IF t.ret
            THEN [t |-> CallIsReady(t, None, "respond"), a |-> a,
                  responses |-> responses, did |-> "ready"]
            ELSE IF TimedOut(t.elapsed)
            THEN [t |-> CallIsReady(t, None, "respond"), a |-> a,
                  responses |-> Append(responses,
                      Response(500, "ERROR",
                               "Timeout waiting for is_ready() to return True", << >>)),
                  did |-> "timeout"]
            ELSE [t |-> [t EXCEPT !.pc = "sleep", !.slept = 0], a |-> a,
                  responses |-> responses, did |-> "sleep"]
      [] t.pc = "sleep" ->
            [t |-> CallIsReady(t, None, "wait"), a |-> a, responses |-> responses,
             did |-> "woke"]
      [] t.pc = "respond" ->
            [t |-> [t EXCEPT !.pc = "idle", !.ret = FALSE], a |-> a,
             responses |-> IF t.ret
                           THEN Append(responses, Response(200, "READY", "", << >>))
                           ELSE responses,
             did |-> IF t.ret THEN "READY" ELSE "nothing"]
      [] t.pc = "run_tests" ->
            [t |-> CallIsReady(t, None, "get_element"), a |-> a, responses |-> responses,
             did |-> "call"]
      [] t.pc = "get_element" ->
            [t |-> [t EXCEPT !.pc = "idle", !.ret = FALSE], a |-> a,
             responses |-> Append(responses,
                 IF t.ret THEN Response(200, "OK", "", << >>)
                 ELSE Response(200, "ERROR", "", << >>)),
             did |-> IF t.ret THEN "run" ELSE "not ready"]

\* One statement of the listener thread in _on_load_complete(data).
ListenerThreadStep(t, a, c, p) ==
    CASE t.pc = "_on_load_complete" ->
            [t |-> [t EXCEPT !.pc = IF a.next_test = <<None, "">>
                                   THEN "after_sleep" ELSE "application"],
             a |-> a]
      [] t.pc = "after_sleep" ->
            [t |-> IF a.next_test = <<None, "">>
                   THEN [t EXCEPT !.pc = "idle", !.source = None]
                   ELSE [t EXCEPT !.pc = "application"],
             a |-> a]
      [] t.pc = "application" ->
            [t |-> IF c.api = "ATK"
                      /\ (ApplicationOf(t.source) = None
                          \/ AppName(ApplicationOf(t.source)) = "WebKitWebProcess")
                   THEN [t EXCEPT !.pc = "idle", !.source = None]
                   ELSE [t EXCEPT !.pc = "is_ready", !.after = "set_application",
                                  !.doc = t.source],
             a |-> a]
      [] t.pc \in IsReadyPcs -> IsReadyStep(t, a, c, p)
      [] t.pc = "set_application" ->
            [t |-> [t EXCEPT !.pc = "idle", !.source = None, !.ret = FALSE],
             a |-> IF t.ret
                   THEN [a EXCEPT !.current_application = ApplicationOf(t.source)]
                   ELSE a]

(***************************************************************************)
(* The adapter driven one whole operation at a time.                       *)
(***************************************************************************)
InitAtta ==
    [ready |-> PyFalse,
     next_test |-> <<None, "">>,
     current_document |-> None,
     current_window |-> None,
     current_application |-> None,
     monitored_event_types |-> << >>,
     event_history |-> << >>,
     results |-> << >>,
     bugs |-> << >>]

InitHttp == [running_tests |-> FALSE, responses |-> << >>]
NoCall == [fn |-> "none", arg |-> << >>, done |-> TRUE, result |-> << >>]
NoThreads == [http |-> IdleHttp, listener |-> IdleListener]
Faults == [find : BOOLEAN, uri : BOOLEAN]
NoLatch == [uri |-> "", title |-> ""]
Op(name, x, y) == [op |-> name, x |-> x, y |-> y]

Init ==
    /\ atta = InitAtta
    /\ cfg \in [load_notifications : BOOLEAN, api : {"ATK", "AXAPI"}]
    /\ plat \in [Docs -> Pages]
    /\ registered = {}
    /\ http = InitHttp
    /\ call = NoCall
    /\ threads = NoThreads
    /\ net = NoLookups
    /\ latched = NoLatch
    /\ lastOp = Op("init", None, None)

Latch(r) == IF r.latch THEN [uri |-> r.uri, title |-> r.title] ELSE latched

\* The runner announces one of `tests`.
StartTestRunOf(tests) ==
    \E test \in tests :
        /\ atta' = StartTestRun(atta, test[1], test[2])
        /\ lastOp' = Op("start_test_run", test[1], test[2])
        /\ UNCHANGED <<cfg, plat, registered, latched, idleVars>>

DoStartTestRun == StartTestRunOf(TestNames \X TestUrls)

DoIsReady ==
    \E document \in Docs \cup {None}, fault \in Faults :
        LET r == IsReady(atta, cfg, plat, document, fault)
        IN /\ atta' = r.a
           /\ latched' = Latch(r)
           /\ lastOp' = Op("is_ready", document,
                           IsReadyCall(atta, cfg, plat, document, fault))
           /\ UNCHANGED <<cfg, plat, registered, idleVars>>

\* The platform signals that document `source` has loaded.
LoadCompleteWith(faults, app_faults) ==
    \E source \in Docs, fault \in faults, app_fault \in app_faults :
        LET r == OnLoadComplete(atta, cfg, plat, source, fault, app_fault)
        IN /\ cfg.load_notifications
           /\ atta' = r.a
           /\ latched' = Latch(r)
           /\ lastOp' = Op("on_load_complete", source, None)
           /\ UNCHANGED <<cfg, plat, registered, idleVars>>

DoLoadComplete == LoadCompleteWith(Faults, BOOLEAN)

DoEndTestRun ==
    /\ atta' = EndTestRun(atta)
    /\ lastOp' = Op("end_test_run", None, None)
    /\ UNCHANGED <<cfg, plat, registered, latched, idleVars>>

DoShutdown ==
    \E got \in [BugUris -> {Unreachable}] :
        /\ atta' = Shutdown(atta, got).a
        /\ net' = Looked(net, Shutdown(atta, got).lookups)
        /\ lastOp' = Op("shutdown", None, None)
        /\ UNCHANGED <<cfg, plat, registered, latched, http, call, threads>>

\* The user agent loads another page into a document.
Navigate ==
    \E d \in Docs, page \in Pages :
        /\ plat' = [plat EXCEPT ![d] = page]
        /\ lastOp' = Op("navigate", None, None)
        /\ UNCHANGED <<atta, cfg, registered, latched, idleVars>>

(***************************************************************************)
(* Listening for events: start_listen, stop_listen and the test-event      *)
(* callback, on a platform whose documents do not navigate.                *)
(***************************************************************************)
MaxHistory == 2
EventTypeLists == {<<"focus">>, <<"focus", "change">>, <<"change", "focus">>}
EventSources == {"d1", "e2", "f1", "w1", None}
ParentFaults == {None, "e1"}
ListenTests == {<<"t1", UrlA>>, <<"t2", UrlB>>}
NoFault == [find |-> FALSE, uri |-> FALSE]

InitListen ==
    /\ atta = InitAtta
    /\ cfg \in [load_notifications : {TRUE}, api : {"ATK", "AXAPI"}]
    /\ plat = [d \in Docs |-> IF d = "d1" THEN Page(UrlA, "t1") ELSE Page(UrlB, "t2")]
    /\ registered = {}
    /\ http = InitHttp
    /\ call = NoCall
    /\ threads = NoThreads
    /\ net = NoLookups
    /\ latched = NoLatch
    /\ lastOp = Op("init", None, None)

DoStartListen ==
    \E event_types \in EventTypeLists :
        /\ atta' = StartListen(atta, event_types)
        /\ registered' = RegisterAll(registered, event_types)
        /\ lastOp' = Op("start_listen", event_types, RegisterCalls(event_types))
        /\ UNCHANGED <<cfg, plat, latched, idleVars>>

DoStopListen ==
    /\ atta' = StopListen(atta)
    /\ registered' = DeregisterAll(registered, atta.monitored_event_types)
    /\ lastOp' = Op("stop_listen", Len(atta.event_history), DeregisterCalls(atta))
    /\ UNCHANGED <<cfg, plat, latched, idleVars>>

\* The platform delivers an event of a registered type to _on_test_event.
TestEventWith(sources, parent_faults) ==
    \E source \in sources, type \in registered, parent_fault \in parent_faults :
        /\ Len(atta.event_history) < MaxHistory
        /\ atta' = OnTestEvent(atta, source, type, parent_fault)
        /\ lastOp' = Op("on_test_event", source, type)
        /\ UNCHANGED <<cfg, plat, registered, latched, idleVars>>

DoTestEvent == TestEventWith(EventSources, ParentFaults)

ListenStartTestRun == StartTestRunOf(ListenTests)

ListenLoadComplete == LoadCompleteWith({NoFault}, {FALSE})

NextListen ==
    \/ ListenStartTestRun
    \/ ListenLoadComplete
    \/ DoEndTestRun
    \/ DoStartListen
    \/ DoStopListen
    \/ DoTestEvent

SpecListen == InitListen /\ [][NextListen]_vars

(***************************************************************************)
(* Correlation applied to every list of at most MaxAssertions assertions.  *)
(***************************************************************************)
MaxAssertions == 3
AssertionTuples ==
    {<<"event", "type", "equals", "Foo">>,
     <<"event", "type", "equals", "Bar">>,
     <<"event", "detail1", "equals", "1">>,
     <<"event", "detail1", "equals", "2">>,
     <<"property", "name", "is", "x">>}
AssertionLists == UNION {[1..n -> AssertionTuples] : n \in 0..MaxAssertions}

InitCorrelate ==
    /\ atta = InitAtta
    /\ cfg = [load_notifications |-> TRUE, api |-> "ATK"]
    /\ plat = [d \in Docs |-> Page(UrlA, "t1")]
    /\ registered = {}
    /\ http = InitHttp
    /\ call \in [fn : {"_create_platform_assertions"}, arg : AssertionLists,
                  done : {FALSE}, result : {<< >>}]
    /\ threads = NoThreads
    /\ net = NoLookups
    /\ latched = NoLatch
    /\ lastOp = Op("init", None, None)

DoCreatePlatformAssertions ==
    /\ call.fn = "_create_platform_assertions"
    /\ ~call.done
    /\ call' = [call EXCEPT !.done = TRUE, !.result = CreatePlatformAssertions(call.arg)]
    /\ lastOp' = Op("_create_platform_assertions", None, None)
    /\ UNCHANGED <<atta, cfg, plat, registered, http, threads, net, latched>>

NextCorrelate == DoCreatePlatformAssertions

SpecCorrelate == InitCorrelate /\ [][NextCorrelate]_vars

(***************************************************************************)
(* The server handling one request at a time, the platform delivering      *)
(* load-complete and test events between requests.                         *)
(***************************************************************************)
MaxResults == 2

StartFields == {[p \in {"test", "url"} |-> IF p = "test" THEN "t1" ELSE UrlA],
                [p \in {"test", "url"} |-> IF p = "test" THEN "t1" ELSE UrlB],
                [p \in {"test"} |-> "t1"]}
ListenFields == {[p \in {"events"} |-> <<"focus">>], << >>}
TestData == <<<<"property", "name", "is", "x">>>>
TestFields == {[p \in {"title", "id", "data"} |->
                   IF p = "data" THEN TestData ELSE IF p = "id" THEN "id2" ELSE "t1"],
               [p \in {"id", "data"} |-> IF p = "data" THEN TestData ELSE "id2"]}

ServerRequests ==
    {Request("/start", FALSE, f) : f \in StartFields}
    \cup {Request("/startlisten", FALSE, f) : f \in ListenFields}
    \cup {Request("/test", FALSE, f) : f \in TestFields}
    \cup {Request(path, TRUE, << >>) : path \in {"/start", "/test"}}
    \cup {Request(path, FALSE, << >>) : path \in {"/stoplisten", "/end", "/status"}}

Verdicts == {"PASS", "FAIL"}

\* The required parameters of the handler a request is dispatched to.
RequiredParams(req) ==
    IF EndsWith(req.path, "start") THEN <<"test", "url">>
    ELSE IF EndsWith(req.path, "startlisten") THEN <<"events">>
    ELSE IF EndsWith(req.path, "test") THEN <<"title", "id", "data">>
    ELSE << >>

\* The number of entries in the result aggregate.
RECURSIVE CountIn(_, _)
CountIn(status_results, files) ==
    IF files = {} THEN 0
    ELSE LET f == CHOOSE f \in files : TRUE
         IN Len(status_results[f]) + CountIn(status_results, files \ {f})

RECURSIVE CountResults(_, _)
CountResults(results, keys) ==
    IF keys = {} THEN 0
    ELSE LET k == CHOOSE k \in keys : TRUE
         IN CountIn(results[k], DOMAIN results[k]) + CountResults(results, keys \ {k})

InitServer ==
    /\ atta = InitAtta
    /\ cfg \in [load_notifications : BOOLEAN, api : {"ATK"}]
    /\ plat = [d \in Docs |-> IF d = "d1" THEN Page(UrlA, "t1") ELSE Page(UrlB, "t2")]
    /\ registered = {}
    /\ http = InitHttp
    /\ call = NoCall
    /\ threads = NoThreads
    /\ net = NoLookups
    /\ latched = NoLatch
    /\ lastOp = Op("init", None, None)

\* The operation names under which a handled request is remembered: the
\* second says the request before it, with nothing in between, was the same.
RequestOps == {"request", "request again"}

\* The server handles one request from start to finish.
DoRequest ==
    \E req \in ServerRequests, result \in Verdicts :
        /\ EndsWith(req.path, "test") \/ result = "PASS"
        /\ CountResults(atta.results, DOMAIN atta.results) < MaxResults
        /\ \E h \in {Dispatch(atta, registered, cfg, plat, http, req, result, latched)} :
              /\ atta' = h.a
              /\ registered' = h.reg
              /\ http' = h.http
              /\ latched' = h.latch
        /\ lastOp' = Op(IF /\ lastOp.op \in RequestOps
                           /\ lastOp.x = req
                           /\ lastOp.y = result
                        THEN "request again" ELSE "request", req, result)
        /\ UNCHANGED <<cfg, plat, call, threads, net>>

ServerLoadComplete == LoadCompleteWith({NoFault}, {FALSE})

ServerTestEvent == TestEventWith({"e2", "f1"}, {None})

NextServer ==
    \/ DoRequest
    \/ ServerLoadComplete
    \/ ServerTestEvent

SpecServer == InitServer /\ [][NextServer]_vars

(***************************************************************************)
(* Method resolution applied to the methods of a few server-side           *)
(* interfaces, for every list of client-side methods drawn from those the  *)
(* interface of the same name may have, in repository order or reversed.   *)
(***************************************************************************)
ServerMethods ==
    {[interface |-> "Value", symbol |-> "atk_value_set_value"],
     [interface |-> "Value", symbol |-> "atk_value_get_minimum_value"],
     [interface |-> "Selection", symbol |-> "atk_selection_ref_selection"],
     [interface |-> "Selection", symbol |-> "atk_selection_get_selection_count"],
     [interface |-> "Table", symbol |-> "atk_table_ref_at"],
     [interface |-> "Action", symbol |-> "atk_action_get_keybinding"],
     [interface |-> "Window", symbol |-> "atk_window_get_title"]}

\* The client-side methods an interface may have; none for an interface
\* without a client-side counterpart.
ClientMethods(interface) ==
    CASE interface = "Value" ->
           <<"atspi_value_set_current_value", "atspi_value_set_value",
             "atspi_value_get_minimum_value">>
      [] interface = "Selection" ->
           <<"atspi_selection_get_selected_child", "atspi_selection_ref_selection",
             "atspi_selection_get_selection", "atspi_selection_get_selection_count",
             "atspi_selection_get_n_selected_children", "atspi_selection_get_n_items">>
      [] interface = "Table" ->
           <<"atspi_table_ref_at", "atspi_table_get_at", "atspi_table_get_accessible_at">>
      [] interface = "Action" ->
           <<"atspi_action_get_key_binding", "atspi_action_getkeybinding",
             "atspi_action_get_n_actions">>
      [] OTHER -> << >>

\* The elements of list at the positions in S, in order.
RECURSIVE Sublist(_, _, _)
Sublist(list, S, i) ==
    IF i > Len(list) THEN << >>
    ELSE (IF i \in S THEN <<list[i]>> ELSE << >>) \o Sublist(list, S, i + 1)

Reversed(list) == [i \in 1..Len(list) |-> list[Len(list) + 1 - i]]

ClientTables(interface) ==
    IF ClientMethods(interface) = << >> THEN {Info(FALSE, << >>)}
    ELSE UNION {{Info(TRUE, Sublist(ClientMethods(interface), S, 1)),
                 Info(TRUE, Reversed(Sublist(ClientMethods(interface), S, 1)))} :
                S \in SUBSET (1..Len(ClientMethods(interface)))}

ResolveInputs ==
    UNION {{[symbol |-> m.symbol, interface |-> m.interface, info |-> t] :
            t \in ClientTables(m.interface)} : m \in ServerMethods}

InitResolve ==
    /\ atta = InitAtta
    /\ cfg = [load_notifications |-> TRUE, api |-> "ATK"]
    /\ plat = [d \in Docs |-> Page(UrlA, "t1")]
    /\ registered = {}
    /\ http = InitHttp
    /\ call \in [fn : {"get_client_side_method"}, arg : ResolveInputs,
                  done : {FALSE}, result : {None}]
    /\ threads = NoThreads
    /\ net = NoLookups
    /\ latched = NoLatch
    /\ lastOp = Op("init", None, None)

DoGetClientSideMethod ==
    /\ call.fn = "get_client_side_method"
    /\ ~call.done
    /\ call' = [call EXCEPT !.done = TRUE,
                            !.result = GetClientSideMethod(call.arg.symbol, call.arg.info)]
    /\ lastOp' = Op("get_client_side_method", None, None)
    /\ UNCHANGED <<atta, cfg, plat, registered, http, threads, net, latched>>

NextResolve == DoGetClientSideMethod

SpecResolve == InitResolve /\ [][NextResolve]_vars

(***************************************************************************)
(* Results: assertions are run one at a time, the summary is logged and    *)
(* bugs are looked up.                                                     *)
(***************************************************************************)
MaxRecorded == 2
MaxLookups == 2

ResultAssertions == {<<"property", "name", "is", "x">>, <<"bogus", "name", "is", "x">>}
TestClasses == {None, "AttaPropertyAssertion"}

InitResults ==
    /\ atta = InitAtta
    /\ cfg = [load_notifications |-> TRUE, api |-> "ATK"]
    /\ plat = [d \in Docs |-> IF d = "d1" THEN Page(UrlA, "t1") ELSE Page(UrlB, "t2")]
    /\ registered = {}
    /\ http = InitHttp
    /\ call = NoCall
    /\ threads = NoThreads
    /\ net = NoLookups
    /\ latched = NoLatch
    /\ lastOp = Op("init", None, None)

ResultsStartTestRun == StartTestRunOf(ListenTests)

\* One assertion is run: one of `assertions`, with one of `classes` found
\* for it, test.run() giving one of `verdicts` and get_bug one of `bugs`.
RunTestOf(assertions, classes, verdicts, bugs) ==
    \E x \in assertions, test_class \in classes, result \in verdicts, bug \in bugs :
        /\ CountResults(atta.results, DOMAIN atta.results) < MaxRecorded
        /\ \E r \in {RunTestWith(atta, None, x, test_class, Ran(result, ""), bug)} :
              /\ atta' = r.a
              /\ lastOp' = Op("_run_test",
                              [assertion |-> x, test_class |-> test_class,
                               asked |-> r.asked, bug |-> r.bug],
                              r.ret)
        /\ UNCHANGED <<cfg, plat, registered, latched, idleVars>>

DoRunTest == RunTestOf(ResultAssertions, TestClasses, Verdicts, {""} \cup BugUris)

DoGetBugDetails ==
    \E bug_uri \in BugUris, got \in LookupOutcomes :
        /\ net[bug_uri] < MaxLookups
        /\ \E r \in {GetBugDetails(atta, bug_uri, got)} :
              /\ atta' = r.a
              /\ net' = [net EXCEPT ![bug_uri] = @ + r.lookups]
              /\ lastOp' = Op("get_bug_details", bug_uri, r.details)
        /\ UNCHANGED <<cfg, plat, registered, latched, http, call, threads>>

DoLogResultsSummary ==
    \E clear_results \in BOOLEAN, got \in [BugUris -> LookupOutcomes] :
        /\ \A u \in BugUris : net[u] < MaxLookups
        /\ \E r \in {LogResultsSummary(atta, clear_results, got)} :
              /\ atta' = r.a
              /\ net' = Looked(net, r.lookups)
              /\ lastOp' = Op("log_results_summary",
                              [clear_results |-> clear_results, results |-> atta.results],
                              r.lines)
        /\ UNCHANGED <<cfg, plat, registered, latched, http, call, threads>>

NextResults ==
    \/ ResultsStartTestRun
    \/ DoRunTest
    \/ DoGetBugDetails
    \/ DoLogResultsSummary

SpecResults == InitResults /\ [][NextResults]_vars

(***************************************************************************)
(* The table of supported methods and the conversion of a method string.   *)
(* A server-side method is a record of ServerMethods; cfg.interfaces is    *)
(* self._interfaces and cfg.repository what the repository finds for the   *)
(* client-side interface of each name.                                     *)
(***************************************************************************)
Interfaces == {m.interface : m \in ServerMethods}

\* The type tags of the in-arguments of a server-side method.
InArgTypes(symbol) ==
    CASE symbol = "atk_value_set_value" -> <<"DOUBLE">>
      [] symbol = "atk_selection_ref_selection" -> <<"INT32">>
      [] symbol = "atk_table_ref_at" -> <<"INT32", "INT32">>
      [] symbol = "atk_action_get_keybinding" -> <<"INT32">>
      [] OTHER -> << >>

\* AtkAtta.platform_type_to_python_type.
PlatformTypeToPythonType(platform_type) ==
    CASE platform_type = "BOOLEAN" -> "bool"
      [] platform_type \in {"INT8", "UINT8", "INT16", "UINT16",
                            "INT32", "UINT32", "INT64", "UINT64"} -> "int"
      [] platform_type \in {"FLOAT", "DOUBLE"} -> "float"
      [] platform_type \in {"GLIST", "GSLIST", "ARRAY"} -> "list"
      [] platform_type = "GHASH" -> "dict"
      [] OTHER -> "str"

\* A slip: every method of the interfaces goes into the table.
IncludedAlways(c, method) == TRUE

\* `if self.get_client_side_method(method)` of get_supported_methods.
Included(c, method) ==
    GetClientSideMethod(method.symbol, c.repository[method.interface]) # None

\* The table get_supported_methods builds once, as the set of its values.
BuildSupportedMethods(c) ==
    {method \in ServerMethods : method.interface \in c.interfaces /\ Included(c, method)}

\* AtkAtta.get_supported_methods(): the table kept in self._supported_methods
\* after the call, and the dict returned (with obj None, the methods whose
\* interface is in self._interfaces).
GetSupportedMethods(a, c) ==
    LET table == IF a.supported_methods # {} THEN a.supported_methods
                 ELSE BuildSupportedMethods(c)
    IN [a |-> [a EXCEPT !.supported_methods = table],
        ret |-> {method \in table : method.interface \in c.interfaces}]

\* The position of the first ch in s from i on; 0 when there is none.
RECURSIVE StrIndex(_, _, _)
StrIndex(s, ch, i) ==
    IF i > Len(s) THEN 0
    ELSE IF SubSeq(s, i, i) = ch THEN i
    ELSE StrIndex(s, ch, i + 1)

\* filter(lambda x: x != "", s.split(",")), from position i on.
RECURSIVE SplitArgs(_, _)
SplitArgs(s, i) ==
    IF i > Len(s) THEN << >>
    ELSE LET k == StrIndex(s, ",", i)
             stop == IF k = 0 THEN Len(s) + 1 ELSE k
         IN (IF stop > i THEN <<SubSeq(s, i, stop - 1)>> ELSE << >>)
            \o SplitArgs(s, stop + 1)

Conversion(raised, message, method, args) ==
    [raised |-> raised, message |-> message, method |-> method, args |-> args]

\* What dict.get(method_string) on the table has when the name is not a key.
NoMethod == [interface |-> "", symbol |-> ""]

\* dict.get(method_string) on the table.
MethodNamed(supported_methods, method_string) ==
    IF \E m \in supported_methods : m.symbol = method_string
    THEN CHOOSE m \in supported_methods : m.symbol = method_string
    ELSE NoMethod

\* AtkAtta.string_to_method_and_arguments, supported_methods being what
\* get_supported_methods() returned to it.
StringToMethodAndArguments(callable_as_string, supported_methods) ==
    LET k == StrIndex(callable_as_string, "(", 1)
        method_string == IF k = 0 THEN callable_as_string
                         ELSE SubSeq(callable_as_string, 1, k - 1)
        args_list == IF k = 0 THEN << >>
                     ELSE SplitArgs(SubSeq(callable_as_string, k + 1,
                                           Len(callable_as_string) - 1), 1)
        method == MethodNamed(supported_methods, method_string)
    IN IF method = NoMethod
       THEN Conversion("NameError", method_string \o " is not supported", NoMethod, << >>)
       ELSE LET arg_types == InArgTypes(method.symbol)
            IN IF Len(arg_types) # Len(args_list)
               THEN Conversion("TypeError", "Incorrect argument count", NoMethod, << >>)
               ELSE Conversion(None, "", method,
                               [i \in 1..Len(args_list) |->
                                   <<PlatformTypeToPythonType(arg_types[i]), args_list[i]>>])

\* The repository has, for an interface, its client-side methods or nothing.
Repositories ==
    [Interfaces -> {Info(FALSE, << >>)}
                   \cup {Info(TRUE, ClientMethods(i)) : i \in Interfaces}]

MethodStrings ==
    {"atk_value_set_value(1)", "atk_value_get_minimum_value()",
     "atk_value_get_minimum_value", "atk_table_ref_at(1,,2)", "atk_table_ref_at(1)",
     "atk_window_get_title", "atspi_value_set_value(1)", "atk_action_get_keybinding(0"}

InitMethods ==
    /\ atta = InitAtta @@ [supported_methods |-> {}]
    /\ \E r \in Repositories :
           /\ \A i \in Interfaces : r[i].found => r[i].methods = ClientMethods(i)
           /\ cfg \in [load_notifications : {TRUE}, api : {"ATK"},
                       interfaces : {Interfaces, {"Value", "Window", "Table"}},
                       repository : {r}]
    /\ plat = [d \in Docs |-> Page(UrlA, "t1")]
    /\ registered = {}
    /\ http = InitHttp
    /\ call = NoCall
    /\ threads = NoThreads
    /\ net = NoLookups
    /\ latched = NoLatch
    /\ lastOp = Op("init", None, None)

\* self._supported_methods = self.get_supported_methods()
DoGetSupportedMethods ==
    \E r \in {GetSupportedMethods(atta, cfg)} :
        /\ atta' = [r.a EXCEPT !.supported_methods = r.ret]
        /\ lastOp' = Op("get_supported_methods", "", [ret |-> r.ret])
        /\ UNCHANGED <<cfg, plat, registered, latched, idleVars>>

DoStringToMethodAndArguments ==
    \E callable_as_string \in MethodStrings :
    \E r \in {GetSupportedMethods(atta, cfg)} :
        /\ atta' = r.a
        /\ call' = [fn |-> "string_to_method_and_arguments",
                    arg |-> callable_as_string, done |-> TRUE,
                    result |-> StringToMethodAndArguments(callable_as_string, r.ret)]
        /\ lastOp' = Op("string_to_method_and_arguments", callable_as_string,
                        [supported_methods |-> r.ret])
        /\ UNCHANGED <<cfg, plat, registered, http, threads, net, latched>>

\* AtkAtta.get_result(method, arguments) with the method and the arguments
\* of the conversion before it: the client-side method is invoked.
DoGetResult ==
    /\ call.fn = "string_to_method_and_arguments"
    /\ call.result.raised = None
    /\ \E method \in {GetClientSideMethod(call.result.method.symbol,
                                          cfg.repository[call.result.method.interface])} :
           lastOp' = Op("get_result", method,
                        [invoked |-> method, arguments |-> call.result.args])
    /\ call' = NoCall
    /\ UNCHANGED <<atta, cfg, plat, registered, http, threads, net, latched>>

NextMethods ==
    \/ DoGetSupportedMethods
    \/ DoStringToMethodAndArguments
    \/ DoGetResult

SpecMethods == InitMethods /\ [][NextMethods]_vars

(***************************************************************************)
(* Recording events while listening starts and stops.  The HTTP thread     *)
(* runs start_listen and stop_listen a statement at a time, the listener   *)
(* thread runs _on_test_event: the test of the source, then the append.    *)
(* The session is ready for test t1 in document d1.  call keeps what the   *)
(* platform has delivered: whether listening has been started or stopped   *)
(* last, and the events of the current document handed to the callback     *)
(* since the last start_listen began.                                      *)
(***************************************************************************)
RecordTypeLists == {<<"focus">>, <<"change", "focus">>}
RecordSources == {"e2", "f1"}

RecordIdleHttp == [pc |-> "idle", types |-> << >>, i |-> 1]
RecordIdleListener == [pc |-> "idle", source |-> None, type |-> None]

InitRecord ==
    /\ atta = [InitAtta EXCEPT !.next_test = <<"t1", UrlA>>, !.ready = PyTrue,
                               !.current_document = "d1",
                               !.current_application = "a1"]
    /\ cfg \in [load_notifications : {TRUE}, api : {"ATK", "AXAPI"}]
    /\ plat = [d \in Docs |-> IF d = "d1" THEN Page(UrlA, "t1") ELSE Page(UrlB, "t2")]
    /\ registered = {}
    /\ http = InitHttp
    /\ call = [phase |-> "none", delivered |-> << >>]
    /\ threads = [http |-> RecordIdleHttp, listener |-> RecordIdleListener]
    /\ net = NoLookups
    /\ latched = NoLatch
    /\ lastOp = Op("init", None, None)

\* The HTTP thread enters start_listen(event_types).
RecordStartListen ==
    \E event_types \in RecordTypeLists :
        /\ threads.http.pc = "idle"
        /\ threads' = [threads EXCEPT !.http = [pc |-> "start_monitored",
                                                types |-> event_types, i |-> 1]]
        /\ call' = [phase |-> "listening", delivered |-> << >>]
        /\ lastOp' = Op("start_listen", "call", event_types)
        /\ UNCHANGED <<atta, cfg, plat, registered, http, net, latched>>

\* The HTTP thread enters stop_listen().
RecordStopListen ==
    /\ threads.http.pc = "idle"
    /\ threads' = [threads EXCEPT !.http =
                       [pc |-> IF atta.monitored_event_types = << >>
                               THEN "stop_monitored" ELSE "stop_deregister",
                        types |-> atta.monitored_event_types, i |-> 1]]
    /\ lastOp' = Op("stop_listen", "call", atta.monitored_event_types)
    /\ UNCHANGED <<atta, cfg, plat, registered, http, call, net, latched>>

\* One statement of start_listen or stop_listen: the thread, the fields and
\* the platform's registrations afterwards.
ListenStatement(t, a, reg) ==
    CASE t.pc = "start_monitored" ->
            [t |-> [t EXCEPT !.pc = "start_history"],
             a |-> [a EXCEPT !.monitored_event_types = << >>], reg |-> reg]
      [] t.pc = "start_history" ->
            [t |-> [t EXCEPT !.pc = "start_register"],
             a |-> [a EXCEPT !.event_history = << >>], reg |-> reg]
      [] t.pc = "start_register" ->
            [t |-> IF t.i = Len(t.types) THEN RecordIdleHttp ELSE [t EXCEPT !.i = @ + 1],
             a |-> [a EXCEPT !.monitored_event_types = Append(@, t.types[t.i])],
             reg |-> RegisterAll(reg, <<t.types[t.i]>>)]
      [] t.pc = "stop_deregister" ->
            [t |-> IF t.i = Len(t.types) THEN [t EXCEPT !.pc = "stop_monitored"]
                   ELSE [t EXCEPT !.i = @ + 1],
             a |-> a, reg |-> DeregisterAll(reg, <<t.types[t.i]>>)]
      [] t.pc = "stop_monitored" ->
            [t |-> [t EXCEPT !.pc = "stop_history"],
             a |-> [a EXCEPT !.monitored_event_types = << >>], reg |-> reg]
      [] t.pc = "stop_history" ->
            [t |-> RecordIdleHttp, a |-> [a EXCEPT !.event_history = << >>], reg |-> reg]

\* The HTTP thread runs its next statement.
RecordHttpStep ==
    /\ threads.http.pc # "idle"
    /\ \E r \in {ListenStatement(threads.http, atta, registered)} :
           /\ atta' = r.a
           /\ registered' = r.reg
           /\ threads' = [threads EXCEPT !.http = r.t]
           /\ call' = IF threads.http.pc = "stop_history"
                      THEN [call EXCEPT !.phase = "stopped"] ELSE call
           /\ lastOp' = Op("http", threads.http.pc,
                           IF r.t.pc = "idle" THEN "returned" ELSE "statement")
    /\ UNCHANGED <<cfg, plat, http, net, latched>>

\* The platform hands an event of a registered type to _on_test_event on the
\* listener thread.
RecordDeliver ==
    \E source \in RecordSources, type \in registered :
        /\ threads.listener.pc = "idle"
        /\ Len(call.delivered) < MaxHistory
        /\ Len(atta.event_history) < MaxHistory
        /\ threads' = [threads EXCEPT !.listener = [pc |-> "in_current_document",
                                                    source |-> source, type |-> type]]
        /\ call' = IF InCurrentDocument(atta, source, None)
                   THEN [call EXCEPT !.delivered = Append(@, Event(source, type))]
                   ELSE call
        /\ lastOp' = Op("deliver", source, type)
        /\ UNCHANGED <<atta, cfg, plat, registered, http, net, latched>>

\* The listener thread runs the next statement of _on_test_event.
RecordListenerStep ==
    /\ threads.listener.pc # "idle"
    /\ \E t \in {threads.listener} :
           IF t.pc = "in_current_document"
           THEN /\ threads' = [threads EXCEPT !.listener =
                                   IF InCurrentDocument(atta, t.source, None)
                                   THEN [t EXCEPT !.pc = "append"]
                                   ELSE RecordIdleListener]
                /\ atta' = atta
           ELSE /\ threads' = [threads EXCEPT !.listener = RecordIdleListener]
                /\ atta' = [atta EXCEPT !.event_history =
                                            Append(@, Event(t.source, t.type))]
    /\ lastOp' = Op("listener", threads.listener.pc, threads.listener.source)
    /\ UNCHANGED <<cfg, plat, registered, http, call, net, latched>>

NextRecord ==
    \/ RecordStartListen
    \/ RecordStopListen
    \/ RecordHttpStep
    \/ RecordDeliver
    \/ RecordListenerStep

SpecRecord == InitRecord /\ [][NextRecord]_vars

(***************************************************************************)
(* The thread _wait_for_run_request starts after a READY answer to a start *)
(* request.  The server handles a request from start to finish; the Timer  *)
(* thread runs a test of its loop at a time; time passes in the units of   *)
(* Timeout.  threads keeps the Timer, the time, and whether a test request *)
(* has been handled since the Timer was started and before its time ran    *)
(* out.                                                                    *)
(***************************************************************************)
MaxNow == 12

WatchRequests ==
    {Request("/start", FALSE, [p \in {"test", "url"} |-> IF p = "test" THEN "t1" ELSE UrlA]),
     Request("/test", FALSE,
             [p \in {"title", "id", "data"} |->
                 IF p = "title" THEN "t1" ELSE IF p = "id" THEN "id2" ELSE << >>]),
     Request("/end", FALSE, << >>)}

NoTimer == [pc |-> "none", timeout |-> 0, logged |-> FALSE]

InitWatchdog ==
    /\ atta = InitAtta
    /\ cfg \in [load_notifications : BOOLEAN, api : {"ATK"}]
    /\ plat = [d \in Docs |-> IF d = "d1" THEN Page(UrlA, "t1") ELSE Page(UrlB, "t2")]
    /\ registered = {}
    /\ http = InitHttp
    /\ call = NoCall
    /\ threads = [timer |-> NoTimer, now |-> 0, tested |-> FALSE]
    /\ net = NoLookups
    /\ latched = NoLatch
    /\ lastOp = Op("init", None, None)

\* The handler has answered READY to a start request.
AnsweredReady(req, h) ==
    /\ EndsWith(req.path, "start")
    /\ ~EndsWith(req.path, "restart")
    /\ h.http.responses # << >>
    /\ h.http.responses[Len(h.http.responses)].status = "READY"

\* The server handles a request; a READY answer to a start request is
\* followed by _wait_for_run_request(), which starts a Timer.
WatchRequest ==
    \E req \in WatchRequests :
        /\ EndsWith(req.path, "start") => threads.timer.pc \in {"none", "done"}
        /\ \E h \in {Dispatch(atta, registered, cfg, plat, http, req, "PASS", latched)} :
              /\ atta' = h.a
              /\ registered' = h.reg
              /\ http' = h.http
              /\ latched' = h.latch
              /\ threads' =
                    IF AnsweredReady(req, h)
                    THEN [threads EXCEPT !.timer = [pc |-> "is_running_tests",
                                                    timeout |-> threads.now + Timeout,
                                                    logged |-> FALSE],
                                         !.tested = FALSE]
                    ELSE IF /\ EndsWith(req.path, "test")
                            /\ threads.timer.pc \notin {"none", "done"}
                            /\ threads.now <= threads.timer.timeout
                    THEN [threads EXCEPT !.tested = TRUE]
                    ELSE threads
              /\ lastOp' = Op("request", req.path, h.http.running_tests)
        /\ UNCHANGED <<cfg, plat, call, net>>

\* Timer.run, one test of its loop at a time.
TimerStatement(t, running_tests, now) ==
    CASE t.pc = "is_running_tests" ->
            IF running_tests THEN [t EXCEPT !.pc = "done"]
            ELSE [t EXCEPT !.pc = "timeout"]
      [] t.pc = "timeout" ->
            IF now > t.timeout THEN [t EXCEPT !.pc = "done", !.logged = TRUE]
            ELSE [t EXCEPT !.pc = "is_running_tests"]

\* The Timer thread runs.
TimerStep ==
    /\ threads.timer.pc \in {"is_running_tests", "timeout"}
    /\ threads' = [threads EXCEPT !.timer =
                       TimerStatement(threads.timer, http.running_tests, threads.now)]
    /\ lastOp' = Op("timer", threads.timer.pc, None)
    /\ UNCHANGED <<atta, cfg, plat, registered, http, call, net, latched>>

\* Time passes.
WatchTick ==
    /\ threads.now < MaxNow
    /\ threads' = [threads EXCEPT !.now = @ + 1]
    /\ lastOp' = Op("tick", None, None)
    /\ UNCHANGED <<atta, cfg, plat, registered, http, call, net, latched>>

NextWatchdog ==
    \/ WatchRequest
    \/ TimerStep
    \/ WatchTick

SpecWatchdog == InitWatchdog /\ [][NextWatchdog]_vars

(***************************************************************************)
(* Finding the test document without load notifications: tests whose names  *)
(* have blanks in them, pages whose titles have, and _find_descendant for   *)
(* every way of classifying the elements.                                   *)
(***************************************************************************)
FindTests == {<<"t1", UrlA>>, <<"t  1", UrlB>>, <<"", UrlA>>}
FindPages == {Page(UrlA, "t1"), Page(UrlB, " t  1 "), Page("", "t 1")}

InitFind ==
    /\ atta = InitAtta
    /\ cfg \in [load_notifications : {FALSE}, api : {"ATK", "AXAPI"}]
    /\ plat \in [Docs -> FindPages]
    /\ registered = {}
    /\ http = InitHttp
    /\ call = NoCall
    /\ threads = NoThreads
    /\ net = NoLookups
    /\ latched = NoLatch
    /\ lastOp = Op("init", None, None)

FindRoots == {"w1", "d1", "e1", None}
FindSat == {"d1", "e1", "e2", "e3"}

FindStartTestRun == StartTestRunOf(FindTests)

\* is_ready() is called without a document.
FindIsReady ==
    \E r \in {IsReady(atta, cfg, plat, None, NoFault)} :
        /\ atta' = r.a
        /\ latched' = Latch(r)
        /\ lastOp' = Op("is_ready", "poll", IsReadyCall(atta, cfg, plat, None, NoFault))
        /\ UNCHANGED <<cfg, plat, registered, idleVars>>

\* The user agent loads another page into a document.
FindNavigate ==
    \E d \in Docs, page \in FindPages :
        /\ plat' = [plat EXCEPT ![d] = page]
        /\ lastOp' = Op("navigate", None, None)
        /\ UNCHANGED <<atta, cfg, registered, latched, idleVars>>

\* _find_descendant(root, pred) is called, pred holding of the elements in sat.
DoFindDescendant ==
    \E root \in FindRoots, sat \in SUBSET FindSat :
        /\ lastOp' = Op("_find_descendant", root,
                        [sat |-> sat, result |-> FindDescendant(root, sat)])
        /\ UNCHANGED <<atta, cfg, plat, registered, latched, idleVars>>

NextFind ==
    \/ FindStartTestRun
    \/ FindIsReady
    \/ FindNavigate
    \/ DoEndTestRun
    \/ DoFindDescendant

SpecFind == InitFind /\ [][NextFind]_vars

(***************************************************************************)
(* run_tests called on an adapter that is enabled or not, ready or not,    *)
(* for an element that is there or not.                                    *)
(***************************************************************************)
RunLists ==
    {<< >>,
     <<<<"property", "name", "is", "x">>>>,
     <<<<"property", "name", "is", "x">>, <<"property", "role", "is", "button">>>>,
     <<<<"property", "name", "is", "x">>, <<"event", "type", "equals", "Foo">>,
       <<"event", "detail1", "equals", "1">>>>}

RunVerdicts == {Ran("PASS", ""), Ran("FAIL", "Actual value: y")}
RunVerdictLists == [1..MaxAssertions -> RunVerdicts]
RunIds == {"id2", "nope"}

InitRunTests ==
    /\ atta = InitAtta
    /\ cfg \in [load_notifications : BOOLEAN, api : {"ATK"}, enabled : BOOLEAN]
    /\ plat = [d \in Docs |-> IF d = "d1" THEN Page(UrlA, "t1") ELSE Page(UrlB, "t2")]
    /\ registered = {}
    /\ http = InitHttp
    /\ call = NoCall
    /\ threads = NoThreads
    /\ net = NoLookups
    /\ latched = NoLatch
    /\ lastOp = Op("init", None, None)

RunTestsStartTestRun == StartTestRunOf(ListenTests)

RunTestsLoadComplete == LoadCompleteWith({NoFault}, {FALSE})

\* run_tests is called.
DoRunTests ==
    \E obj_id \in RunIds, assertions \in RunLists, verdicts \in RunVerdictLists :
        /\ CountResults(atta.results, DOMAIN atta.results) < MaxResults
        /\ \E r \in {IsReady(atta, cfg, plat, None, NoFault)} :
              \E ret \in {RunTestsOf(cfg.enabled, atta, r, obj_id, assertions, verdicts)} :
                  /\ atta' = ret.a
                  /\ latched' = IF cfg.enabled THEN Latch(r) ELSE latched
                  /\ lastOp' = Op("run_tests", obj_id,
                                  [assertions |-> assertions, verdicts |-> verdicts,
                                   status |-> ret.status, message |-> ret.message,
                                   results |-> ret.results, obj |-> ret.obj,
                                   evaluated |-> ret.evaluated])
        /\ UNCHANGED <<cfg, plat, registered, idleVars>>

NextRunTests ==
    \/ RunTestsStartTestRun
    \/ RunTestsLoadComplete
    \/ DoRunTests

SpecRunTests == InitRunTests /\ [][NextRunTests]_vars

(***************************************************************************)
(* A session through every operation that leaves a test run going or ends  *)
(* it: announcing tests, is_ready, load-complete notifications, listening, *)
(* test events, run_tests, end_test_run and shutdown.                       *)
(***************************************************************************)
LatchEventSources == {"e2", "f1"}
LatchRunLists == {<<<<"property", "name", "is", "x">>>>}
LatchVerdictLists == [1..MaxAssertions -> {Ran("PASS", "")}]

InitLatch ==
    /\ atta = InitAtta
    /\ cfg \in [load_notifications : BOOLEAN, api : {"ATK", "AXAPI"}, enabled : {TRUE}]
    /\ plat = [d \in Docs |-> IF d = "d1" THEN Page(UrlA, "t1") ELSE Page(UrlB, "t2")]
    /\ registered = {}
    /\ http = InitHttp
    /\ call = NoCall
    /\ threads = NoThreads
    /\ net = NoLookups
    /\ latched = NoLatch
    /\ lastOp = Op("init", None, None)

LatchStartTestRun == StartTestRunOf(ListenTests)

LatchLoadComplete == LoadCompleteWith({NoFault}, {FALSE})

LatchStartListen ==
    \E event_types \in {<<"focus">>} :
        /\ atta' = StartListen(atta, event_types)
        /\ registered' = RegisterAll(registered, event_types)
        /\ lastOp' = Op("start_listen", None, None)
        /\ UNCHANGED <<cfg, plat, latched, idleVars>>

LatchTestEvent == TestEventWith(LatchEventSources, {None})

LatchRunTests ==
    \E obj_id \in {"id2"}, assertions \in LatchRunLists, verdicts \in LatchVerdictLists :
        /\ CountResults(atta.results, DOMAIN atta.results) < MaxResults
        /\ \E r \in {IsReady(atta, cfg, plat, None, NoFault)} :
              \E ret \in {RunTestsOf(cfg.enabled, atta, r, obj_id, assertions, verdicts)} :
                  /\ atta' = ret.a
                  /\ latched' = Latch(r)
                  /\ lastOp' = Op("run_tests", obj_id, ret.status)
        /\ UNCHANGED <<cfg, plat, registered, idleVars>>

NextLatch ==
    \/ LatchStartTestRun
    \/ DoIsReady
    \/ LatchLoadComplete
    \/ LatchStartListen
    \/ DoStopListen
    \/ LatchTestEvent
    \/ LatchRunTests
    \/ DoEndTestRun
    \/ DoShutdown

SpecLatch == InitLatch /\ [][NextLatch]_vars

(***************************************************************************)
(* The ATK adapter's reads of the platform.  What AT-SPI2 gives is a list   *)
(* of outcomes, one for each read in the order the reads are made: Raise    *)
(* when the read raises, else the value read.  Reads past the end of the    *)
(* list raise.  Each operator starts at read i with `retries` retries made  *)
(* and gives the value returned, the read that would come next and the      *)
(* retries made by then.                                                    *)
(***************************************************************************)
RetryLimit == 2   \* self._retry_limit
MaxReads == 5

Raise == "raise"
TwoChildren == <<"e1", "e2">>

ReadAt(reads, i) == IF i <= Len(reads) THEN reads[i] ELSE Raise

Returned(value, next, retries) == [value |-> value, next |-> next, retries |-> retries]

\* A slip: one retry more is made before giving up.
RetriesExhaustedLate(retries) == retries > RetryLimit + 1

\* retries > self._retry_limit
RetriesExhausted(retries) == retries > RetryLimit

\* AtkAtta.get_property_value(obj, property_name, retries=retries).
RECURSIVE GetPropertyValue(_, _, _)
GetPropertyValue(reads, i, retries) ==
    IF RetriesExhausted(retries) THEN Returned(None, i, retries)
    ELSE IF ReadAt(reads, i) = Raise THEN GetPropertyValue(reads, i + 1, retries + 1)
    ELSE Returned(ReadAt(reads, i), i + 1, retries)

\* AtkAtta._get_uri(document, retries=retries) for a document that is not
\* None: the attribute DocURL is read, and URI if DocURL is empty.
RECURSIVE AtkGetUri(_, _, _)
AtkGetUri(reads, i, retries) ==
    IF RetriesExhausted(retries) THEN Returned("", i, retries)
    ELSE IF ReadAt(reads, i) = Raise THEN AtkGetUri(reads, i + 1, retries + 1)
    ELSE IF ReadAt(reads, i) # "" THEN Returned(ReadAt(reads, i), i + 1, retries)
    ELSE IF ReadAt(reads, i + 1) = Raise THEN AtkGetUri(reads, i + 2, retries + 1)
    ELSE Returned(ReadAt(reads, i + 1), i + 2, retries)

\* AtkAtta._get_children(obj, retries=retries): childCount is read through
\* get_property_value, then the children; a read of the children that does
\* not raise gives TwoChildren.
RECURSIVE AtkGetChildren(_, _, _)
AtkGetChildren(reads, i, retries) ==
    IF RetriesExhausted(retries) THEN Returned(<< >>, i, retries)
    ELSE LET count == GetPropertyValue(reads, i, 0)
         IN IF count.value = None THEN Returned(<< >>, count.next, retries)
            ELSE IF ReadAt(reads, count.next) = Raise
            THEN AtkGetChildren(reads, count.next + 1, retries + 1)
            ELSE Returned(TwoChildren, count.next + 1, retries)

ReadOutcomes == {Raise, "", "http://h/a"}
ReadLists(outcomes) == UNION {[1..n -> outcomes] : n \in 0..MaxReads}

InitRetry ==
    /\ atta = InitAtta
    /\ cfg = [load_notifications |-> TRUE, api |-> "ATK"]
    /\ plat = [d \in Docs |-> IF d = "d1" THEN Page(UrlA, "t1") ELSE Page(UrlB, "t2")]
    /\ registered = {}
    /\ http = InitHttp
    /\ call = NoCall
    /\ threads = NoThreads
    /\ net = NoLookups
    /\ latched = NoLatch
    /\ lastOp = Op("init", None, None)

\* The function named fn has been called while the platform gives `reads`.
Called(fn, reads, result) == [fn |-> fn, arg |-> reads, done |-> TRUE, result |-> result]

DoGetPropertyValue ==
    \E reads \in ReadLists(ReadOutcomes) :
        /\ call' = Called("get_property_value", reads, GetPropertyValue(reads, 1, 0))
        /\ lastOp' = Op("get_property_value", None, None)
        /\ UNCHANGED <<atta, cfg, plat, registered, http, threads, net, latched>>

DoGetUri ==
    \E reads \in ReadLists(ReadOutcomes) :
        /\ call' = Called("_get_uri", reads, AtkGetUri(reads, 1, 0))
        /\ lastOp' = Op("_get_uri", None, None)
        /\ UNCHANGED <<atta, cfg, plat, registered, http, threads, net, latched>>

DoGetChildren ==
    \E reads \in ReadLists({Raise, "2"}) :
        /\ call' = Called("_get_children", reads, AtkGetChildren(reads, 1, 0))
        /\ lastOp' = Op("_get_children", None, None)
        /\ UNCHANGED <<atta, cfg, plat, registered, http, threads, net, latched>>

NextRetry ==
    \/ DoGetPropertyValue
    \/ DoGetUri
    \/ DoGetChildren

SpecRetry == InitRetry /\ [][NextRetry]_vars

(***************************************************************************)
(* Starting and shutting down.  The server is "none" until start creates   *)
(* it, "serving" while serve_forever runs and "stopped" once a shutdown of  *)
(* the server has ended it; stoppers counts the threads started to run     *)
(* _server.shutdown and stopped those that have run it.  shutdown is run    *)
(* one statement at a time by its caller: call.arg is where it is and        *)
(* call.result the summary lines it has logged.                             *)
(***************************************************************************)
MaxShutdowns == 2

LoadComplete == "document:load-complete"

NotStarted ==
    [http |-> IdleHttp, listener |-> IdleListener, server |-> "none",
     listening |-> FALSE, stoppers |-> 0, stopped |-> 0]

\* AtkAtta.start(): the listeners and the threads afterwards.
Start(c, reg, th) ==
    IF ~c.enabled THEN [reg |-> reg, th |-> th]
    ELSE [reg |-> IF c.load_notifications THEN reg \cup {LoadComplete} ELSE reg,
          th |-> [th EXCEPT !.listening = TRUE, !.server = "serving"]]

\* A slip: the server is stopped before the summary is logged.
ShutdownNextStoppingFirst(pc) ==
    CASE pc = "listeners" -> "ready"
      [] pc = "ready" -> "server"
      [] pc = "server" -> "summary"
      [] pc = "summary" -> "return"

\* The statement of shutdown that follows statement pc.
ShutdownNext(pc) ==
    CASE pc = "listeners" -> "ready"
      [] pc = "ready" -> "summary"
      [] pc = "summary" -> "server"
      [] pc = "server" -> "return"

\* One statement of AtkAtta.shutdown and the Atta.shutdown it ends in, when
\* the network gives got[bug] for each bug: where the caller is afterwards,
\* the fields, the listeners, the threads, and the lines and lookups of the
\* summary.
ShutdownStatement(pc, a, c, reg, th, got) ==
    LET same == [pc |-> pc, a |-> a, reg |-> reg, th |-> th, lines |-> << >>,
                 lookups |-> << >>]
    IN CASE pc = "enabled" ->
                [same EXCEPT !.pc = IF c.enabled THEN "listeners" ELSE "return"]
         [] pc = "listeners" ->
                [same EXCEPT !.pc = ShutdownNext(pc),
                             !.reg = IF c.load_notifications
                                     THEN reg \ {LoadComplete} ELSE reg,
                             !.th.listening = FALSE]
         [] pc = "ready" ->
                [same EXCEPT !.pc = ShutdownNext(pc), !.a.ready = PyFalse]
         [] pc = "summary" ->
                LET logged == LogResultsSummary(a, TRUE, got)
                IN [same EXCEPT !.pc = ShutdownNext(pc), !.a = logged.a,
                                !.lines = logged.lines, !.lookups = logged.lookups]
         [] pc = "server" ->
                [same EXCEPT !.pc = ShutdownNext(pc),
                             !.th.stoppers = IF th.server # "none" THEN @ + 1 ELSE @]

InitShutdown ==
    /\ atta = InitAtta
    /\ cfg \in [load_notifications : BOOLEAN, api : {"ATK"}, enabled : BOOLEAN]
    /\ plat = [d \in Docs |-> IF d = "d1" THEN Page(UrlA, "t1") ELSE Page(UrlB, "t2")]
    /\ registered = {}
    /\ http = InitHttp
    /\ call = NoCall
    /\ threads = NotStarted
    /\ net = NoLookups
    /\ latched = NoLatch
    /\ lastOp = Op("init", None, None)

\* The command-line program starts the adapter.
DoStart ==
    /\ call.done
    /\ threads.server = "none"
    /\ cfg.enabled
    /\ \E r \in {Start(cfg, registered, threads)} :
          /\ registered' = r.reg
          /\ threads' = r.th
    /\ lastOp' = Op("start", None, None)
    /\ UNCHANGED <<atta, cfg, plat, http, call, net, latched>>

\* The runner announces a test to an adapter that has started.
ShutdownStartTestRun ==
    /\ call.done
    /\ threads.server = "serving"
    /\ StartTestRunOf({<<"t1", UrlA>>})

\* The page loads and the adapter becomes ready.
ShutdownLoadComplete ==
    /\ call.done
    /\ threads.server = "serving"
    /\ LoadCompleteWith({NoFault}, {FALSE})

\* An assertion is run by an adapter that has started.
ShutdownRunTest ==
    /\ call.done
    /\ threads.server = "serving"
    /\ RunTestOf({<<"property", "name", "is", "x">>}, {"AttaPropertyAssertion"},
                 Verdicts, {"", BugA})

\* shutdown is called: by the signal handler, or by the program.
ShutdownCall ==
    /\ call.done
    /\ threads.stoppers < MaxShutdowns
    /\ call' = [fn |-> "shutdown", arg |-> "enabled", done |-> FALSE, result |-> << >>]
    /\ lastOp' = Op("shutdown", "call", None)
    /\ UNCHANGED <<atta, cfg, plat, registered, http, threads, net, latched>>

\* The caller of shutdown runs its next statement.
ShutdownStep ==
    /\ ~call.done
    /\ \E got \in {[u \in BugUris |-> Unreachable], [u \in BugUris |-> Found]} :
          \E r \in {ShutdownStatement(call.arg, atta, cfg, registered, threads, got)} :
              /\ atta' = r.a
              /\ registered' = r.reg
              /\ threads' = r.th
              /\ net' = Looked(net, r.lookups)
              /\ call' = [call EXCEPT !.arg = r.pc, !.done = r.pc = "return",
                                      !.result = @ \o r.lines]
    /\ lastOp' = Op("shutdown", call.arg, None)
    /\ UNCHANGED <<cfg, plat, http, latched>>

\* A thread started by shutdown runs _server.shutdown(), which returns once
\* serve_forever has ended.
StopperRuns ==
    /\ threads.stopped < threads.stoppers
    /\ threads' = [threads EXCEPT !.server = "stopped", !.stopped = @ + 1]
    /\ lastOp' = Op("_server.shutdown", None, None)
    /\ UNCHANGED <<atta, cfg, plat, registered, http, call, net, latched>>

NextShutdown ==
    \/ DoStart
    \/ ShutdownStartTestRun
    \/ ShutdownLoadComplete
    \/ ShutdownRunTest
    \/ ShutdownCall
    \/ ShutdownStep
    \/ StopperRuns

SpecShutdown == InitShutdown /\ [][NextShutdown]_vars

(***************************************************************************)
(* The two threads interleaved statement by statement.                     *)
(***************************************************************************)
MaxRequests == 3
MaxEvents == 2

ThreadRequests ==
    {[path |-> "/start", test |-> "t1", url |-> UrlA],
     [path |-> "/start", test |-> "t2", url |-> UrlB],
     [path |-> "/test", test |-> None, url |-> ""]}

\* The most the elapsed time of a request can come to.
MaxElapsed == Timeout + 2 * PollSleep + 3 * MaxReadyCost

InitThreads ==
    /\ atta = InitAtta
    /\ cfg \in [load_notifications : {TRUE}, api : {"ATK", "AXAPI"}]
    /\ plat = [d \in Docs |-> IF d = "d1" THEN Page(UrlA, "t1") ELSE Page("", "t2")]
    /\ registered = {}
    /\ http = InitHttp
    /\ call = NoCall
    /\ threads = NoThreads
    /\ net = NoLookups
    /\ latched = NoLatch
    /\ lastOp = Op("init", None, None)

\* A slip: the server hands each request to a thread of its own.
ServerAcceptsWhileHandling(t) == TRUE

\* HTTPServer.serve_forever on the one server thread: the next request is
\* taken up once the handler of the one before has returned.
ServerAccepts(t) == t.pc = "idle"

\* The server hands the next request to its handler.
HttpAccept ==
    \E req \in ThreadRequests :
        /\ ServerAccepts(threads.http)
        /\ threads.http.served < MaxRequests
        /\ threads' = [threads EXCEPT !.http =
                          [@ EXCEPT !.pc = IF req.path = "/start" THEN "start_test_run"
                                           ELSE "run_tests",
                                    !.req = req, !.elapsed = 0, !.slept = 0, !.cost = 0,
                                    !.served = @ + 1]]
        /\ http' = [running_tests |-> req.path = "/test", responses |-> << >>]
        /\ lastOp' = Op("accept", req.path, None)
        /\ UNCHANGED <<atta, cfg, plat, registered, call, net, latched>>

\* The HTTP thread runs its next statement; a sleeping thread runs once it
\* has slept for PollSleep.
HttpStep ==
    /\ threads.http.pc # "idle"
    /\ threads.http.pc = "sleep" => threads.http.slept = PollSleep
    /\ LET r == HttpThreadStep(threads.http, atta, cfg, plat, http.responses)
       IN /\ threads' = [threads EXCEPT !.http = r.t]
          /\ atta' = r.a
          /\ http' = [http EXCEPT !.responses = r.responses]
          /\ latched' = IF threads.http.pc = "set_document"
                         THEN [uri |-> threads.http.uri,
                               title |-> GetTitle(plat, threads.http.doc, FALSE)]
                         ELSE latched
          /\ lastOp' = Op("http", threads.http.pc, r.did)
    /\ UNCHANGED <<cfg, plat, registered, call, net>>

\* Time passes for the HTTP thread: while it sleeps, and within the time
\* an is_ready call of the polling loop may take.
Tick ==
    /\ threads.http.elapsed < MaxElapsed
    /\ threads.http.req.path = "/start"
    /\ \/ threads.http.pc = "sleep" /\ threads.http.slept < PollSleep
       \/ threads.http.pc \in IsReadyPcs /\ threads.http.cost < MaxReadyCost
    /\ threads' = [threads EXCEPT !.http =
                      [@ EXCEPT !.elapsed = @ + 1,
                                !.slept = IF threads.http.pc = "sleep" THEN @ + 1 ELSE @,
                                !.cost = IF threads.http.pc = "sleep" THEN @ ELSE @ + 1]]
    /\ lastOp' = Op("tick", None, None)
    /\ UNCHANGED <<atta, cfg, plat, registered, http, call, net, latched>>

\* The platform signals on the listener thread that a document has loaded.
ListenerDeliver ==
    \E source \in Docs :
        /\ cfg.load_notifications
        /\ threads.listener.pc = "idle"
        /\ threads.listener.handled < MaxEvents
        /\ threads' = [threads EXCEPT !.listener =
                          [@ EXCEPT !.pc = "_on_load_complete", !.source = source,
                                    !.handled = @ + 1]]
        /\ lastOp' = Op("deliver", source, None)
        /\ UNCHANGED <<atta, cfg, plat, registered, http, call, net, latched>>

\* The listener thread runs its next statement.
ListenerStep ==
    /\ threads.listener.pc # "idle"
    /\ LET r == ListenerThreadStep(threads.listener, atta, cfg, plat)
       IN /\ threads' = [threads EXCEPT !.listener = r.t]
          /\ atta' = r.a
          /\ latched' = IF threads.listener.pc = "set_document"
                         THEN [uri |-> threads.listener.uri,
                               title |-> GetTitle(plat, threads.listener.doc, FALSE)]
                         ELSE latched
          /\ lastOp' = Op("listener", threads.listener.pc, None)
    /\ UNCHANGED <<cfg, plat, registered, http, call, net>>

NextThreads ==
    \/ HttpAccept
    \/ HttpStep
    \/ Tick
    \/ ListenerDeliver
    \/ ListenerStep

SpecThreads == InitThreads /\ [][NextThreads]_vars

\* The HTTP thread keeps running and time keeps passing.
FairSpecThreads == SpecThreads /\ WF_vars(HttpStep) /\ WF_vars(Tick)

Next ==
    \/ DoStartTestRun
    \/ DoIsReady
    \/ DoLoadComplete
    \/ DoEndTestRun
    \/ DoShutdown
    \/ Navigate

Spec == Init /\ [][Next]_vars

(***************************************************************************)
(* Session state machine.                                                  *)
(***************************************************************************)

\* C1: whenever ready is true, currentDocument is not null and the URI read
\* from it when ready was latched equals the pending test URL or, when that
\* read gave no URI, the title read equals the pending test name.
C1_ReadinessInvariant ==
    Truthy(atta.ready) =>
        /\ atta.current_document # None
        /\ \/ latched.uri # "" /\ latched.uri = atta.next_test[2]
           \/ latched.uri = "" /\ latched.title = atta.next_test[1]

\* A state where ready was latched by the title fallback, and one by URI.
C1_Witness ==
    /\ Truthy(atta.ready)
    /\ latched.uri = ""
    /\ lastOp.op \in {"is_ready", "on_load_complete"}

\* C2: a start_test_run whose (name, url) equals the pending pair changes no
\* field of the adapter (ready, pending test and current document included);
\* one whose pair differs sets ready to false and records the new pair.
C2_IdempotentReannouncement ==
    [][lastOp'.op = "start_test_run" =>
          IF atta.next_test = <<lastOp'.x, lastOp'.y>>
          THEN atta' = atta
          ELSE atta'.ready = PyFalse /\ atta'.next_test = <<lastOp'.x, lastOp'.y>>]_vars

\* start_test_run has just re-announced the pending test of a ready session.
C2_Witness ==
    /\ lastOp.op = "start_test_run"
    /\ atta.next_test = <<lastOp.x, lastOp.y>>
    /\ Truthy(atta.ready)

\* C3: after end_test_run the pending test, ready, currentDocument,
\* currentWindow and currentApplication all have their initial values.
C3_EndTestRunClearsSession ==
    lastOp.op = "end_test_run" =>
        /\ atta.next_test = InitAtta.next_test
        /\ atta.ready = InitAtta.ready
        /\ atta.current_document = InitAtta.current_document
        /\ atta.current_window = InitAtta.current_window
        /\ atta.current_application = InitAtta.current_application

(***************************************************************************)
(* Event listener.                                                         *)
(***************************************************************************)

\* The objects that are the document or lie below it in the platform's tree.
RECURSIVE Subtree(_)
Subtree(root) ==
    {root} \cup UNION {Subtree(ChildrenOf(root)[i]) : i \in 1..Len(ChildrenOf(root))}

\* C7: a step of the test-event callback appends an event only if its source
\* is the current document or a descendant of it, and appends nothing while
\* currentDocument is null; what it appends is the delivered event.
C7_ListenerScoping ==
    [][lastOp'.op = "on_test_event" =>
          IF atta.current_document # None
             /\ lastOp'.x \in Subtree(atta.current_document)
          THEN atta'.event_history \in
                  {atta.event_history,
                   Append(atta.event_history, Event(lastOp'.x, lastOp'.y))}
          ELSE atta'.event_history = atta.event_history]_vars

\* An event from two levels below the current document has been recorded
\* while an event type is being listened for.
C7_Witness ==
    /\ lastOp.op = "on_test_event"
    /\ atta.current_document = "d1"
    /\ Len(atta.event_history) > 0
    /\ atta.event_history[Len(atta.event_history)].obj = "e2"

(***************************************************************************)
(* Event correlation.                                                      *)
(***************************************************************************)
OnlyEvents(assertions) == \A i \in 1..Len(assertions) : assertions[i][1] = "event"

TypePositions(assertions) == {i \in 1..Len(assertions) : assertions[i][2] = "type"}

\* The positions of the group opened by the 'type' tuple at position t.
GroupOf(assertions, t) ==
    {i \in t..Len(assertions) : \A j \in (t + 1)..i : j \notin TypePositions(assertions)}

\* The k-th smallest element of a set of positions.
KthOf(S, k) == CHOOSE i \in S : Cardinality({j \in S : j < i}) = k - 1

Correlated(input) == call.done /\ call.arg = input

\* The input of the call is a list of event tuples that starts with a 'type' tuple.
C8_Case ==
    /\ call.fn = "_create_platform_assertions"
    /\ call.done
    /\ Len(call.arg) > 0
    /\ OnlyEvents(call.arg)
    /\ 1 \in TypePositions(call.arg)

Endpoints == {"start", "startlisten", "test", "stoplisten", "end"}

\* The request just handled was handled immediately before as well, and is
\* for one of the five endpoints.
HandledTwice ==
    /\ lastOp'.op = "request again"
    /\ \E e \in Endpoints : lastOp'.x.path = "/" \o e

\* The entries of the aggregate without their multiplicity.
DistinctResults(results) ==
    [k \in DOMAIN results |->
        [f \in DOMAIN results[k] |->
            {results[k][f][i] : i \in 1..Len(results[k][f])}]]

\* Everything of the adapter but the result aggregate.
WithoutResults(a) == [a EXCEPT !.results = << >>]

\* C9, as stated: for each of the five endpoints, handling the same request
\* twice in succession leaves the adapter state (session fields, monitored
\* event types, listener registrations, event buffer, result aggregate)
\* equal to the state after handling it once.
C9_HandlingTwiceChangesNothing ==
    [][HandledTwice => atta' = atta /\ registered' = registered]_vars

\* C9, as the code has it: handling the same request twice in succession
\* leaves the session fields, the monitored event types, the listener
\* registrations and the event buffer as they were after handling it once;
\* the result aggregate is left as it was by start, startlisten, stoplisten
\* and end, while test records its assertions once more, so that only the
\* number of times an entry is recorded changes, not the distinct entries.
C9_IdempotentEndpoints ==
    [][HandledTwice =>
          /\ WithoutResults(atta') = WithoutResults(atta)
          /\ registered' = registered
          /\ DistinctResults(atta'.results) = DistinctResults(atta.results)
          /\ lastOp'.x.path # "/test" =>
                 CountResults(atta'.results, DOMAIN atta'.results)
                     = CountResults(atta.results, DOMAIN atta.results)]_vars

\* A test request handled twice in succession has recorded its assertion
\* twice under the same key and file.
C9_Witness ==
    /\ lastOp.op = "request again"
    /\ lastOp.x.path = "/test"
    /\ \E k \in DOMAIN atta.results : \E f \in DOMAIN atta.results[k] :
           /\ Len(atta.results[k][f]) = 2
           /\ atta.results[k][f][1] = atta.results[k][f][2]

\* The parameter error text of the request just handled.
ParamError(req) == GetParamsError(req, RequiredParams(req))

\* C10, as stated: a request whose body is malformed or lacks a required
\* parameter is answered with a 400-class HTTP status code whose status text
\* contains the parameter error text, and the session state is not changed.
C10_ParameterErrorsRejected ==
    [][(lastOp'.op \in RequestOps /\ ParamError(lastOp'.x) # "") =>
          /\ http'.responses # << >>
          /\ \A i \in 1..Len(http'.responses) :
                 /\ http'.responses[i].code \in 400..499
                 /\ StrContains(http'.responses[i].statusText, ParamError(lastOp'.x))
          /\ atta' = atta]_vars

\* What handling a request whose path ends in `endpoint` is seen to do.
EndpointEffect(endpoint, req) ==
    CASE endpoint = "start" ->
           /\ http'.running_tests = FALSE
           /\ registered' = registered
           /\ atta'.monitored_event_types = atta.monitored_event_types
           /\ IF GetParamsError(req, <<"test", "url">>) = ""
              THEN atta'.next_test = <<req.fields["test"], req.fields["url"]>>
              ELSE atta' = atta /\ http'.responses[1].status = "ERROR"
      [] endpoint = "startlisten" ->
           /\ http'.running_tests = http.running_tests
           /\ atta'.next_test = atta.next_test
           /\ atta'.ready = atta.ready
           /\ GetParamsError(req, <<"events">>) = "" =>
                  /\ atta'.monitored_event_types = req.fields["events"]
                  /\ atta'.event_history = << >>
                  /\ \A i \in 1..Len(req.fields["events"]) :
                         req.fields["events"][i] \in registered'
                  /\ http'.responses = <<Response(200, "READY", "", << >>)>>
      [] endpoint = "test" ->
           /\ http'.running_tests = TRUE
           /\ registered' = registered
           /\ atta'.next_test = atta.next_test
           /\ atta'.monitored_event_types = atta.monitored_event_types
           /\ Len(http'.responses) = 1
           /\ http'.responses[1].status \in {"OK", "ERROR"}
      [] endpoint = "stoplisten" ->
           /\ http'.running_tests = http.running_tests
           /\ atta'.next_test = atta.next_test
           /\ atta'.monitored_event_types = << >>
           /\ atta'.event_history = << >>
           /\ registered' = registered \ {atta.monitored_event_types[i] :
                                              i \in 1..Len(atta.monitored_event_types)}
           /\ http'.responses = <<Response(200, "READY", "", << >>)>>
      [] endpoint = "end" ->
           /\ http'.running_tests = FALSE
           /\ registered' = registered
           /\ atta'.next_test = <<None, "">>
           /\ atta'.current_document = None
           /\ http'.responses = <<Response(200, "DONE", "", << >>)>>

\* C11: a request whose path ends in start, startlisten, test, stoplisten or
\* end is handled by the operation of that name and no other (startlisten
\* starts listening and starts no test run; stoplisten stops listening); a
\* request with any other path is answered with an error that carries
\* "UNHANDLED PATH" and the path, and changes nothing of the adapter.
C11_DispatchTotal ==
    [][lastOp'.op \in RequestOps =>
          /\ \A e \in Endpoints :
                 EndsWith(lastOp'.x.path, e) => EndpointEffect(e, lastOp'.x)
          /\ (\A e \in Endpoints : ~EndsWith(lastOp'.x.path, e)) =>
                 /\ atta' = atta
                 /\ registered' = registered
                 /\ http'.running_tests = http.running_tests
                 /\ Len(http'.responses) = 1
                 /\ http'.responses[1].code = 400
                 /\ StrContains(http'.responses[1].statusText, "UNHANDLED PATH")
                 /\ StrContains(http'.responses[1].statusText, lastOp'.x.path)]_vars

\* A request for /status has been refused while a test run is under way and
\* an event type is being listened for.
C11_Witness ==
    /\ lastOp.op \in RequestOps
    /\ lastOp.x.path = "/status"
    /\ atta.next_test = <<"t1", UrlA>>
    /\ Truthy(atta.ready)
    /\ atta.monitored_event_types = <<"focus">>
    /\ http.responses = <<Response(400, "", "UNHANDLED PATH: /status", << >>)>>

(***************************************************************************)
(* The two threads.                                                        *)
(***************************************************************************)
\* The document is one is_ready matches against the test: by its URI, or by
\* its title when it exposes no URI.
DocMatches(p, doc, test) ==
    LET uri == GetUri(p, doc, FALSE)
    IN IF uri # "" THEN uri = test[2]
       ELSE Truthy(test[1]) /\ GetTitle(p, doc, FALSE) = test[1]

\* The HTTP thread finds _ready true: at the top of is_ready, which then
\* returns True, or in run_tests when it goes on to read _current_document.
HttpObservesReady ==
    /\ lastOp'.op = "http"
    /\ \/ lastOp'.x = "is_ready" /\ Truthy(atta.ready)
       \/ lastOp'.x = "get_element" /\ threads.http.ret /\ Truthy(atta.ready)

\* C4, as stated: under any interleaving of the listener thread's
\* load-complete callback with the HTTP thread's start_test_run, is_ready and
\* run_tests, the HTTP thread never observes ready true while
\* currentDocument is null or is a document that was matched against a test
\* other than the pending one.
C4_ReadyTransitionAtomic ==
    [][HttpObservesReady =>
          /\ atta.current_document # None
          /\ DocMatches(plat, atta.current_document, atta.next_test)]_vars

\* C5, as stated: the timeout error of a start request is never sent at an
\* elapsed time greater than the timeout.
C5_ErrorWithinTimeout ==
    [][(lastOp'.op = "http" /\ lastOp'.y = "timeout") =>
          threads.http.elapsed <= Timeout]_vars

\* C5, as the code has it: the timeout error of a start request is sent only
\* once the elapsed time exceeds the timeout, and no later than the timeout
\* plus one sleep of the polling loop plus the time of one is_ready call.
C5_ErrorSoonAfterTimeout ==
    [][(lastOp'.op = "http" /\ lastOp'.y = "timeout") =>
          /\ threads.http.elapsed > Timeout
          /\ threads.http.elapsed <= Timeout + PollSleep + MaxReadyCost
          /\ http'.responses[Len(http'.responses)].status = "ERROR"
          /\ http'.responses[Len(http'.responses)].code = 500]_vars

\* The timeout error has just been sent, one sleep after the timeout.
C5_Witness ==
    /\ lastOp.op = "http"
    /\ lastOp.y = "timeout"
    /\ threads.http.elapsed = Timeout + PollSleep
    /\ http.responses # << >>
    /\ http.responses[1].status = "ERROR"

\* A start request is being handled.
StartPending == threads.http.req.path = "/start" /\ threads.http.pc # "idle"

\* The handler of a start request has returned.
StartHandled == threads.http.req.path = "/start" /\ threads.http.pc = "idle"

\* C6, as stated: every start request receives a response: when the polling
\* loop of the start handler has terminated and the handler has returned, it
\* has answered READY because is_ready became true or ERROR because the
\* timeout elapsed.
C6_StartIsAnswered == StartHandled => http.responses # << >>

\* The polling loop never polls forever: while the HTTP thread keeps running
\* and time keeps passing, the handler of every start request returns.
StartHandlerReturns == StartPending ~> StartHandled

(***************************************************************************)
(* The readiness check.                                                    *)
(***************************************************************************)

\* C12: is_ready called while ready is true returns true at once: it makes
\* no lookup on the platform and changes no field of the adapter, whatever
\* document it is passed.
C12_ReadyIsMemoized ==
    [][(lastOp'.op = "is_ready" /\ Truthy(atta.ready)) =>
          /\ lastOp'.y.ret
          /\ lastOp'.y.queries = {}
          /\ atta' = atta
          /\ latched' = latched]_vars

\* is_ready has returned true for a ready session although the document it
\* was passed is another one than the current one and does not match the
\* pending test.
C12_Witness ==
    /\ lastOp.op = "is_ready"
    /\ lastOp.y.ret
    /\ lastOp.y.queries = {}
    /\ Truthy(atta.ready)
    /\ lastOp.x \in Docs \ {atta.current_document}
    /\ ~DocMatches(plat, lastOp.x, atta.next_test)

\* is_ready has found _ready false and has no document to examine, or one
\* whose URI is not the pending URL, or one without a URI whose title is not
\* the pending name.
IsReadyUnresolved ==
    /\ lastOp'.op = "is_ready"
    /\ ~Truthy(atta.ready)
    /\ \/ lastOp'.y.doc = None
       \/ lastOp'.y.uri # "" /\ lastOp'.y.uri # atta.next_test[2]
       \/ lastOp'.y.uri = "" /\ TitleOf(plat, lastOp'.y.doc) # atta.next_test[1]

\* C13: when is_ready cannot resolve a document matching the pending test (no
\* document, a URI other than the pending URL, or no URI and a title other
\* than the pending name) it returns false, leaves ready false and leaves
\* currentDocument as it was.
C13_UnresolvedStaysUnready ==
    [][IsReadyUnresolved =>
          /\ ~lastOp'.y.ret
          /\ ~Truthy(atta'.ready)
          /\ atta'.current_document = atta.current_document]_vars

\* is_ready has returned false for a document without a URI whose title is
\* not the pending name, the document of an earlier test being still current.
C13_Witness ==
    /\ lastOp.op = "is_ready"
    /\ ~lastOp.y.ret
    /\ lastOp.y.doc \in Docs \ {atta.current_document}
    /\ lastOp.y.uri = ""
    /\ "_get_title" \in lastOp.y.queries
    /\ atta.ready = PyFalse
    /\ atta.current_document # None


(***************************************************************************)
(* Results and bugs.                                                       *)
(***************************************************************************)

\* C14, as stated: for every bug URI at most one lookup is made on the
\* network while the adapter lives; after the first call of get_bug_details
\* for a URI, whatever that lookup gave, later calls make none.
C14_AtMostOneLookup == \A u \in BugUris : net[u] <= 1

\* The sum of the sizes of the sets sets[f], f in files.
RECURSIVE SumOfSizes(_, _)
SumOfSizes(sets, files) ==
    IF files = {} THEN 0
    ELSE LET f == CHOOSE f \in files : TRUE
         IN Cardinality(sets[f]) + SumOfSizes(sets, files \ {f})

\* The summary just logged has a line for key k that gives n_assertions
\* assertions from n_files files.
Summarised(k, n_assertions, n_files) ==
    \E i \in 1..Len(lastOp.y) :
        /\ lastOp.y[i].key = k
        /\ lastOp.y[i].n_assertions = n_assertions
        /\ lastOp.y[i].n_files = n_files

\* C15: the summary counts, for every aggregation key, each assertion string
\* once per file however often it was recorded there: its assertion count is
\* the sum over the files of the number of distinct strings recorded for the
\* file, and its file count the number of distinct files; PASS and FAIL are
\* reported with zero counts when nothing is recorded under them.
C15_SummaryCountsDistinct ==
    lastOp.op = "log_results_summary" =>
        /\ \A k \in DOMAIN lastOp.x.results :
               Summarised(k,
                          SumOfSizes(DistinctResults(lastOp.x.results)[k],
                                     DOMAIN lastOp.x.results[k]),
                          Cardinality(DOMAIN lastOp.x.results[k]))
        /\ \A k \in {"PASS", "FAIL"} \ DOMAIN lastOp.x.results : Summarised(k, 0, 0)
        /\ Len(lastOp.y) = Cardinality(DOMAIN lastOp.x.results \cup {"PASS", "FAIL"})

\* A summary has been logged of an aggregate in which one assertion was
\* recorded twice for the same file under the same key, and counts it once.
C15_Witness ==
    /\ lastOp.op = "log_results_summary"
    /\ \E k \in DOMAIN lastOp.x.results : \E f \in DOMAIN lastOp.x.results[k] :
           /\ Len(lastOp.x.results[k][f]) = 2
           /\ lastOp.x.results[k][f][1] = lastOp.x.results[k][f][2]
           /\ Summarised(k, 1, 1)

\* C16, as stated: log_results_summary called with clear_results=True leaves
\* the aggregate empty, and called with clear_results=False leaves the
\* aggregate exactly as it was before the call.
C16_ClearsOnlyWhenAsked ==
    [][lastOp'.op = "log_results_summary" =>
          IF lastOp'.x.clear_results
          THEN atta'.results = << >>
          ELSE atta'.results = atta.results]_vars

\* The entries recorded under key k.
RecordedUnder(results, k) ==
    IF k \in DOMAIN results THEN CountIn(results[k], DOMAIN results[k]) ELSE 0

\* C17: running an assertion that has no assertion class yields one result,
\* with status FAIL and a message that names the assertion as invalid, and
\* records the assertion once more under the FAIL key of the aggregate and
\* under no other key.
C17_UnknownKindFails ==
    [][(lastOp'.op = "_run_test" /\ lastOp'.x.test_class = None) =>
          /\ lastOp'.y.result = "FAIL"
          /\ StrContains(lastOp'.y.message, "is not a valid assertion")
          /\ \A i \in 1..4 : StrContains(lastOp'.y.message, lastOp'.x.assertion[i])
          /\ DOMAIN atta'.results = DOMAIN atta.results \cup {"FAIL"}
          /\ RecordedUnder(atta'.results, "FAIL") = RecordedUnder(atta.results, "FAIL") + 1
          /\ \A k \in DOMAIN atta.results \ {"FAIL"} :
                 atta'.results[k] = atta.results[k]
          /\ \E f \in DOMAIN atta'.results["FAIL"] :
                 LET entries == atta'.results["FAIL"][f]
                 IN entries[Len(entries)] = AssertionString(lastOp'.x.assertion)]_vars

\* An assertion of kind bogus, for which no class is found, has been failed
\* and recorded, although the run of an assertion would have passed.
C17_Witness ==
    /\ lastOp.op = "_run_test"
    /\ lastOp.x.test_class = None
    /\ lastOp.x.assertion[1] = "bogus"
    /\ lastOp.y.result = "FAIL"
    /\ "PASS" \notin DOMAIN atta.results
    /\ RecordedUnder(atta.results, "FAIL") = 1


(***************************************************************************)
(* Method resolution.                                                      *)
(***************************************************************************)
\* A call of get_client_side_method has returned.
Resolved == call.fn = "get_client_side_method" /\ call.done

\* C18: for every server-side method and every list of client-side methods,
\* and also when the interface has no client-side counterpart,
\* get_client_side_method returns a method of that list or None.
C18_ResolverTotal ==
    Resolved =>
        \/ call.result = None
        \/ call.arg.info.found /\ InList(call.result, call.arg.info.methods)

\* A method of an interface without a client-side counterpart has been
\* resolved to None.
C18_Witness ==
    /\ Resolved
    /\ ~call.arg.info.found
    /\ call.arg.interface = "Window"
    /\ call.result = None

\* What strategy k of the resolution finds for symbol sym among methods: 1
\* the override table, 2 atk -> atspi, 3 _ref_ -> _get_, 4 _ref_at ->
\* _get_accessible_at, 5 the first method with the same name once the
\* underscores are dropped, 6 the only method with get_n_ in its name, for a
\* symbol with _get_ and _count in its name; None when it finds nothing.
StrategyResult(k, sym, methods) ==
    LET substituted == StrReplace(sym, "atk", "atspi")
        named(c) == IF InList(c, methods) THEN c ELSE None
        squashed == {i \in 1..Len(methods) :
                        StrReplace(methods[i], "_", "") = StrReplace(substituted, "_", "")}
        counters == {i \in 1..Len(methods) : StrContains(methods[i], "get_n_")}
    IN CASE k = 1 -> named(Mapped(sym))
         [] k = 2 -> named(substituted)
         [] k = 3 -> named(StrReplace(substituted, "_ref_", "_get_"))
         [] k = 4 -> named(StrReplace(substituted, "_ref_at", "_get_accessible_at"))
         [] k = 5 -> IF squashed = {} THEN None
                     ELSE methods[CHOOSE i \in squashed : \A j \in squashed : i <= j]
         [] k = 6 -> IF /\ StrContains(sym, "_get_")
                        /\ StrContains(sym, "_count")
                        /\ Cardinality(counters) = 1
                     THEN methods[CHOOSE i \in counters : TRUE]
                     ELSE None

\* C19: the resolution returns what the first of its six strategies, in the
\* order override table, atk -> atspi, _ref_ -> _get_, _ref_at ->
\* _get_accessible_at, underscore-collapsed match, count heuristic, finds
\* among the client-side methods, and None when none finds anything; so
\* atk_value_set_value resolves to atspi_value_set_current_value and
\* atk_selection_ref_selection to atspi_selection_get_selected_child
\* whenever those client-side methods exist.
C19_FirstStrategyWins ==
    (Resolved /\ call.arg.info.found) =>
        LET sym == call.arg.symbol
            methods == call.arg.info.methods
            hits == {k \in 1..6 : StrategyResult(k, sym, methods) # None}
        IN /\ IF hits = {} THEN call.result = None
              ELSE call.result =
                       StrategyResult(CHOOSE k \in hits : \A h \in hits : k <= h,
                                      sym, methods)
           /\ (sym = "atk_value_set_value"
                  /\ InList("atspi_value_set_current_value", methods)) =>
                 call.result = "atspi_value_set_current_value"
           /\ (sym = "atk_selection_ref_selection"
                  /\ InList("atspi_selection_get_selected_child", methods)) =>
                 call.result = "atspi_selection_get_selected_child"

\* atk_selection_ref_selection has been resolved by the override table
\* although the substitution and the _ref_ -> _get_ replacement both name
\* client-side methods that exist.
C19_Witness ==
    /\ Resolved
    /\ call.arg.symbol = "atk_selection_ref_selection"
    /\ InList("atspi_selection_ref_selection", call.arg.info.methods)
    /\ InList("atspi_selection_get_selection", call.arg.info.methods)
    /\ call.result = "atspi_selection_get_selected_child"


(***************************************************************************)
(* Starting and stopping to listen.                                        *)
(***************************************************************************)

\* C20: start_listen(types) leaves the event buffer empty, calls
\* _register_listener once for each element of types, in order, and leaves
\* the monitored types equal to types; stop_listen calls _deregister_listener
\* once for each monitored type and leaves the monitored types and the event
\* buffer empty.
C20_ListenLifecycle ==
    [][/\ lastOp'.op = "start_listen" =>
             /\ atta'.event_history = << >>
             /\ lastOp'.y = lastOp'.x
             /\ atta'.monitored_event_types = lastOp'.x
             /\ \A i \in 1..Len(lastOp'.x) : lastOp'.x[i] \in registered'
       /\ lastOp'.op = "stop_listen" =>
             /\ lastOp'.y = atta.monitored_event_types
             /\ atta'.monitored_event_types = << >>
             /\ atta'.event_history = << >>
             /\ \A i \in 1..Len(atta.monitored_event_types) :
                    atta.monitored_event_types[i] \notin registered']_vars

\* Listening for change and focus has been stopped while events were in the
\* buffer: both types have been deregistered, in the order they were
\* registered in, and the buffer is empty.
C20_Witness ==
    /\ lastOp.op = "stop_listen"
    /\ lastOp.x > 0
    /\ lastOp.y = <<"change", "focus">>
    /\ atta.monitored_event_types = << >>
    /\ atta.event_history = << >>
    /\ registered = {}


(***************************************************************************)
(* One request at a time.                                                  *)
(***************************************************************************)

\* C21: the server takes up a request only when no handler is running, so no
\* two handlers, and no two runs of assertions, are ever under way together;
\* a start handler that sleeps in its polling loop keeps the server busy.
C21_OneHandlerAtATime ==
    [][threads'.http.served # threads.http.served =>
           /\ threads.http.pc = "idle"
           /\ threads'.http.served = threads.http.served + 1
           /\ threads'.http.pc \in {"start_test_run", "run_tests"}]_vars

\* The second request, a start, sleeps in its polling loop while the listener
\* thread is in a callback.
C21_Witness ==
    /\ threads.http.served = 2
    /\ threads.http.req.path = "/start"
    /\ threads.http.pc = "sleep"
    /\ threads.listener.pc # "idle"


(***************************************************************************)
(* Shutting down.                                                          *)
(***************************************************************************)

RetryCalls == {"get_property_value", "_get_uri", "_get_children"}

\* Every read the call made raised.
AllReadsRaised == \A i \in 1..(call.result.next - 1) : ReadAt(call.arg, i) = Raise

\* C23: no call makes more than retry_limit + 1 retries, and none returns
\* the fault; when every read raises, get_property_value returns None after
\* retry_limit + 1 reads, _get_uri returns "" and _get_children returns [],
\* each after at most retry_limit + 1 reads that raised.
C23_RetriesBounded ==
    call.fn \in RetryCalls =>
        /\ call.result.retries <= RetryLimit + 1
        /\ call.result.value # Raise
        /\ AllReadsRaised =>
              /\ call.result.next - 1 = RetryLimit + 1
              /\ call.fn = "get_property_value" => call.result.value = None
              /\ call.fn = "_get_uri" => call.result.value = ""
              /\ call.fn = "_get_children" => call.result.value = << >>
        /\ call.fn = "get_property_value" => call.result.next - 1 <= RetryLimit + 1

\* _get_children has given up after the read of the children raised three
\* times, the child count having been read each time.
C23_Witness ==
    /\ call.fn = "_get_children"
    /\ call.arg = <<"2", Raise, "2", Raise, "2">>
    /\ call.result.value = << >>
    /\ call.result.retries = RetryLimit + 1
    /\ call.result.next = 7


(***************************************************************************)
(* Running the assertions of a request.                                    *)
(***************************************************************************)

\* run_tests has just been called on an adapter for which is_ready() came to
\* `ready`.
RunTestsCalled(ready) ==
    /\ lastOp'.op = "run_tests"
    /\ IsReady(atta, cfg, plat, None, NoFault).ret = ready

\* C24: run_tests of an adapter that is not enabled returns ERROR with
\* "ATTA not enabled", and of one that is enabled and not ready ERROR with
\* "ATTA not ready"; either way the results returned are empty, no assertion
\* is evaluated and the aggregate is as it was.
C24_NotEnabledOrNotReady ==
    [][/\ lastOp'.op = "run_tests" /\ ~cfg.enabled =>
             /\ lastOp'.y.status = "ERROR"
             /\ lastOp'.y.message = "ATTA not enabled"
             /\ lastOp'.y.results = << >>
             /\ lastOp'.y.evaluated = << >>
             /\ atta'.results = atta.results
       /\ RunTestsCalled(FALSE) /\ cfg.enabled =>
             /\ lastOp'.y.status = "ERROR"
             /\ lastOp'.y.message = "ATTA not ready"
             /\ lastOp'.y.results = << >>
             /\ lastOp'.y.evaluated = << >>
             /\ atta'.results = atta.results]_vars

\* An enabled adapter that has results recorded is asked to run two
\* assertions for a test whose page is not the one loaded, and answers that
\* it is not ready.
C24_Witness ==
    /\ cfg.enabled
    /\ lastOp.op = "run_tests"
    /\ Len(lastOp.y.assertions) = 2
    /\ lastOp.y.status = "ERROR"
    /\ lastOp.y.message = "ATTA not ready"
    /\ atta.results # << >>
    /\ atta.next_test # <<None, "">>
    /\ ~Truthy(atta.ready)


\* C25: run_tests of an enabled adapter that is ready returns OK with one
\* result for each platform assertion correlation produces, in their order,
\* and the aggregate gains one entry for each; so it is too when no element
\* has the id asked for.
C25_OneResultPerAssertion ==
    [][RunTestsCalled(TRUE) /\ cfg.enabled =>
           LET to_run == CreatePlatformAssertions(lastOp'.y.assertions)
           IN /\ lastOp'.y.status = "OK"
              /\ lastOp'.y.evaluated = to_run
              /\ Len(lastOp'.y.results) = Len(to_run)
              /\ \A i \in 1..Len(to_run) :
                     lastOp'.y.results[i] = lastOp'.y.verdicts[i]
              /\ CountResults(atta'.results, DOMAIN atta'.results)
                     = CountResults(atta.results, DOMAIN atta.results) + Len(to_run)]_vars

\* Three assertions, two of them one event, have been run for an id no
\* element has: two results, the first a failure and the second a pass.
C25_Witness ==
    /\ cfg.enabled
    /\ lastOp.op = "run_tests"
    /\ lastOp.x = "nope"
    /\ lastOp.y.obj = None
    /\ Len(lastOp.y.assertions) = 3
    /\ lastOp.y.status = "OK"
    /\ Len(lastOp.y.results) = 2
    /\ lastOp.y.results[1].result = "FAIL"
    /\ lastOp.y.results[2].result = "PASS"
    /\ "FAIL" \in DOMAIN atta.results
    /\ "PASS" \in DOMAIN atta.results


\* The aggregate `after` is `before` with `entry` appended under key and file.
Filed(before, after, key, file, entry) ==
    /\ DOMAIN after = DOMAIN before \cup {key}
    /\ \A k \in DOMAIN before \ {key} : after[k] = before[k]
    /\ DOMAIN after[key]
           = (IF key \in DOMAIN before THEN DOMAIN before[key] ELSE {}) \cup {file}
    /\ \A f \in DOMAIN after[key] \ {file} : after[key][f] = before[key][f]
    /\ after[key][file]
           = Append(IF key \in DOMAIN before /\ file \in DOMAIN before[key]
                    THEN before[key][file] ELSE << >>, entry)

\* C26: a result is recorded under the bug the adapter names when it is a
\* FAIL and the bug is not empty, and under its status otherwise; the bug is
\* asked for only when the result is FAIL, so a PASS is recorded under PASS;
\* and the file it is recorded under is the path of the pending test's URL.
C26_AggregationKey ==
    [][lastOp'.op = "_run_test" =>
           LET result == lastOp'.y.result
               bug == lastOp'.x.bug
               key == IF result = "FAIL" /\ bug # "" THEN bug ELSE result
           IN /\ lastOp'.x.asked => result = "FAIL"
              /\ ~lastOp'.x.asked => bug = ""
              /\ result = "PASS" => key = "PASS"
              /\ Filed(atta.results, atta'.results, key, UrlPath(atta.next_test[2]),
                       AssertionString(lastOp'.x.assertion))]_vars

\* A failure for which the adapter named a bug has been recorded under that
\* bug and the path of the test's URL, next to a pass recorded under PASS.
C26_Witness ==
    /\ lastOp.op = "_run_test"
    /\ lastOp.y.result = "FAIL"
    /\ lastOp.x.asked
    /\ lastOp.x.bug = BugA
    /\ atta.next_test[2] = UrlA
    /\ BugA \in DOMAIN atta.results
    /\ "/a" \in DOMAIN atta.results[BugA]
    /\ "PASS" \in DOMAIN atta.results
    /\ "FAIL" \notin DOMAIN atta.results


(***************************************************************************)
(* The count heuristic.                                                    *)
(***************************************************************************)

\* No strategy before the count heuristic finds a method for the call.
NoEarlierMatch ==
    \A k \in 1..5 : StrategyResult(k, call.arg.symbol, call.arg.info.methods) = None

\* The client-side methods of the call with get_n_ in their names.
GetNMethods ==
    {call.arg.info.methods[i] : i \in {j \in 1..Len(call.arg.info.methods) :
                                          StrContains(call.arg.info.methods[j], "get_n_")}}

\* C27: when no earlier strategy matches, a server-side symbol with both
\* _get_ and _count in it resolves to the client-side method with get_n_ in
\* its name if there is exactly one, and to nothing if there is none or more
\* than one; a symbol without _get_ or without _count resolves to nothing.
C27_CountHeuristic ==
    (Resolved /\ call.arg.info.found /\ NoEarlierMatch) =>
        IF /\ StrContains(call.arg.symbol, "_get_")
           /\ StrContains(call.arg.symbol, "_count")
           /\ Cardinality(GetNMethods) = 1
        THEN call.result \in GetNMethods
        ELSE call.result = None

\* atk_selection_get_selection_count has been resolved to the one method
\* with get_n_ in its name, the interface having other methods as well.
C27_Witness ==
    /\ Resolved
    /\ call.arg.symbol = "atk_selection_get_selection_count"
    /\ NoEarlierMatch
    /\ Len(call.arg.info.methods) >= 3
    /\ call.result = "atspi_selection_get_n_selected_children"


(***************************************************************************)
(* Finding the test document.                                              *)
(***************************************************************************)

\* The elements from root down, depth first, a parent before its children
\* and the children in their order.
RECURSIVE PreOrder(_)
RECURSIVE PreOrderOf(_, _)
PreOrder(root) == <<root>> \o PreOrderOf(ChildrenOf(root), 1)

PreOrderOf(children, i) ==
    IF i > Len(children) THEN << >>
    ELSE PreOrder(children[i]) \o PreOrderOf(children, i + 1)

\* The first element of list that is in S; None when there is none.
FirstIn(list, S) ==
    IF \E i \in 1..Len(list) : list[i] \in S
    THEN list[CHOOSE i \in 1..Len(list) :
                  list[i] \in S /\ \A j \in 1..(i - 1) : list[j] \notin S]
    ELSE None

\* The title of window w, blanks simplified, has the pending test's name,
\* blanks simplified, in it.
TitleHasName(w) ==
    StrContains(SimplifyWhitespace(TitleOf(plat, w)),
                SimplifyWhitespace(atta.next_test[1]))

\* The window the claim has is_ready search from.
TestWindow ==
    IF atta.next_test[1] \in {None, ""} THEN None
    ELSE IF atta.current_window # None /\ TitleHasName(atta.current_window)
    THEN atta.current_window
    ELSE FirstIn(WindowsFrom(1), {w \in Windows : TitleHasName(w)})

\* C28: without load notifications, a document passed or a current document,
\* is_ready of a session that is not ready takes the current window if its
\* title still has the test's name in it, else the first window of the
\* running applications whose title has, and no window when the name is
\* empty (titles and name with their blanks simplified); the document it
\* examines is the first element below that window, depth first and parents
\* first, that the adapter takes for a document; without a window or a
\* document it returns False.  _find_descendant returns the first element in
\* that order of which its predicate holds.
C28_FindsFirstDocument ==
    [][/\ (/\ lastOp'.op = "is_ready"
           /\ ~Truthy(atta.ready)
           /\ atta.current_document = None
           /\ ~cfg.load_notifications) =>
              LET document ==
                      IF TestWindow = None THEN None
                      ELSE FirstIn(PreOrder(TestWindow),
                                   {o \in Elements : IsDocument(cfg, plat, o, FALSE)})
              IN /\ atta'.current_window = TestWindow
                 /\ lastOp'.y.doc = document
                 /\ document = None =>
                        /\ ~lastOp'.y.ret
                        /\ atta'.ready = atta.ready
                        /\ atta'.current_document = None
       /\ lastOp'.op = "_find_descendant" =>
              lastOp'.y.result = IF lastOp'.x = None THEN None
                                 ELSE FirstIn(PreOrder(lastOp'.x), lastOp'.y.sat)]_vars

\* The test "t  1" has been found in the second window although the first
\* was the current window: the first one's title has lost the name.
C28_Witness ==
    /\ lastOp.op = "is_ready"
    /\ lastOp.y.ret
    /\ lastOp.y.queries = {"_find_test_window", "_find_descendant", "_get_uri"}
    /\ atta.next_test[1] = "t  1"
    /\ atta.current_window = "w2"
    /\ atta.current_document = "d2"
    /\ plat["d1"].title = "t1"
    /\ plat["d2"].title = " t  1 "


(***************************************************************************)
(* Method strings and the table of supported methods.                      *)
(***************************************************************************)

\* The method name of a method string: what stands before its first "(".
MethodNameOf(s) ==
    CHOOSE n \in {SubSeq(s, 1, j) : j \in 0..Len(s)} :
        /\ ~StrContains(n, "(")
        /\ n = s \/ SubSeq(s, Len(n) + 1, Len(n) + 1) = "("

\* The server-side method is one of an interface of the adapter and has a
\* client-side method.
ResolvesClientSide(m) ==
    /\ m.interface \in cfg.interfaces
    /\ GetClientSideMethod(m.symbol, cfg.repository[m.interface]) # None

\* C29: the table of supported methods holds only server-side methods that
\* have a client-side method; a method string whose method name is not the
\* symbol of such a method is answered with NameError "<name> is not
\* supported" and yields no method, and the only methods get_result invokes
\* are the client-side methods of methods a conversion has yielded.
C29_UnsupportedRejected ==
    [][/\ \A m \in atta'.supported_methods : ResolvesClientSide(m)
       /\ lastOp'.op = "string_to_method_and_arguments" =>
              LET name == MethodNameOf(lastOp'.x)
              IN (~\E m \in ServerMethods : m.symbol = name /\ ResolvesClientSide(m)) =>
                     /\ call'.result.raised = "NameError"
                     /\ call'.result.message = name \o " is not supported"
                     /\ call'.result.method = NoMethod
       /\ lastOp'.op = "get_result" =>
              /\ call.fn = "string_to_method_and_arguments"
              /\ call.result.raised = None
              /\ call.result.method \in ServerMethods
              /\ ResolvesClientSide(call.result.method)
              /\ MethodNameOf(call.arg) = call.result.method.symbol
              /\ lastOp'.y.invoked # None]_vars

\* A method of an interface without client-side methods has been asked for
\* while the table has other methods in it.
C29_Witness ==
    /\ lastOp.op = "string_to_method_and_arguments"
    /\ lastOp.x = "atk_window_get_title"
    /\ "Window" \in cfg.interfaces
    /\ atta.supported_methods # {}
    /\ call.result.raised = "NameError"
    /\ call.result.message = "atk_window_get_title is not supported"


(***************************************************************************)
(* One response to a start request.                                        *)
(***************************************************************************)

\* C30, as stated: a start request gets exactly one response: its handler
\* never writes the ERROR response of the timeout and then a READY response
\* too, even if readiness is latched between the poll that timed out and the
\* is_ready check that ends the handler.
C30_OneResponsePerStart ==
    threads.http.req.path = "/start" =>
        /\ Len(http.responses) <= 1
        /\ ~\E i, j \in 1..Len(http.responses) :
               /\ i < j
               /\ http.responses[i].code = 500
               /\ http.responses[j].status = "READY"


(***************************************************************************)
(* Registrations and the monitored types.                                  *)
(***************************************************************************)

\* C31, as stated: the event types registered with the platform for the
\* test-event callback are always those of the monitored-type list, also
\* when start_listen is called again without a stop_listen in between, so
\* that after stop_listen none is left registered.
C31_NoLeakedRegistrations ==
    /\ registered = {atta.monitored_event_types[i] :
                         i \in 1..Len(atta.monitored_event_types)}
    /\ lastOp.op = "stop_listen" => registered = {}


(***************************************************************************)
(* Recording events while listening starts and stops.                      *)
(***************************************************************************)

\* C32, as stated: however the test-event callback on the listener thread
\* interleaves with start_listen and stop_listen: once start_listen has
\* returned and no callback is running, the buffer holds the events of the
\* current document delivered since that start_listen began, in the order
\* of delivery, none lost and none twice; and from the return of stop_listen
\* to the next start_listen the buffer is empty.
C32_RecordingDoesNotRace ==
    /\ (/\ call.phase = "listening"
        /\ threads.http.pc = "idle"
        /\ threads.listener.pc = "idle") => atta.event_history = call.delivered
    /\ call.phase = "stopped" => atta.event_history = << >>


(***************************************************************************)
(* The current application.                                                *)
(***************************************************************************)

\* C33, as stated: a load-complete callback that sets currentApplication
\* sets it to the application of currentDocument, and a notification from a
\* document of another application that arrives while the session is ready
\* leaves currentApplication as it is.
C33_ApplicationOwnsDocument ==
    [][lastOp'.op = "on_load_complete" =>
           /\ atta'.current_application # atta.current_application =>
                  atta'.current_application = ApplicationOf(atta'.current_document)
           /\ (/\ Truthy(atta.ready)
               /\ ApplicationOf(lastOp'.x) # ApplicationOf(atta.current_document)) =>
                  atta'.current_application = atta.current_application]_vars


(***************************************************************************)
(* Readiness is kept.                                                      *)
(***************************************************************************)

\* start_test_run has been called with a test other than the pending one.
AnotherTestAnnounced ==
    lastOp'.op = "start_test_run" /\ <<lastOp'.x, lastOp'.y>> # atta.next_test

\* C34: once ready is true, ready stays true and currentDocument stays the
\* same through is_ready, load-complete callbacks, test events,
\* start_listen, stop_listen and run_tests; start_test_run with a (name,
\* url) other than the pending one, end_test_run and shutdown, and only
\* they, set ready back to false.
C34_ReadinessIsLatched ==
    [][Truthy(atta.ready) =>
           IF AnotherTestAnnounced \/ lastOp'.op \in {"end_test_run", "shutdown"}
           THEN ~Truthy(atta'.ready)
           ELSE Truthy(atta'.ready) /\ atta'.current_document = atta.current_document]_vars

\* A load-complete notification from d2 has reached an AXAPI adapter that
\* was ready in d1 while it listened and held an event: it is still ready
\* in d1.
C34_Witness ==
    /\ lastOp.op = "on_load_complete"
    /\ lastOp.x = "d2"
    /\ cfg.api = "AXAPI"
    /\ Truthy(atta.ready)
    /\ atta.current_document = "d1"
    /\ atta.event_history # << >>
    /\ atta.results # << >>


(***************************************************************************)
(* Correlation keeps every assertion.                                      *)
(***************************************************************************)
IsNotEvent(x) == x[1] # "event"

\* C35, as stated: for every input list, the assertions that are not event
\* tuples are in the output unchanged and in their order, and the (name,
\* value) pair of every event tuple is in the map of a combined event
\* assertion of the output, also when the last event tuples are followed by
\* other tuples or when event tuples come before the first 'type' tuple.
C35_NoAssertionLost ==
    (call.fn = "_create_platform_assertions" /\ call.done) =>
        /\ SelectSeq(call.result, IsNotEvent) = SelectSeq(call.arg, IsNotEvent)
        /\ \A i \in 1..Len(call.arg) :
               call.arg[i][1] = "event" =>
                   \E k \in 1..Len(call.result) :
                       /\ <<call.result[k][1], call.result[k][2], call.result[k][3]>>
                              = <<"event", "event", "contains">>
                       /\ \E j \in 1..Len(call.result[k][4]) :
                              call.result[k][4][j] = <<call.arg[i][2], call.arg[i][4]>>


(***************************************************************************)
(* Discovery after a new test has been announced.                          *)
(***************************************************************************)

\* What is_ready() comes to when the search for the test document starts
\* afresh, with no document kept from before.
FreshDiscovery ==
    IsReady([atta EXCEPT !.current_document = None], cfg, plat, None, NoFault)

\* A window with the pending name in its title is there and the document in
\* it has the pending URL.
TestDocumentIsThere ==
    /\ FreshDiscovery.ret
    /\ FreshDiscovery.a.current_window # None
    /\ TitleHasName(FreshDiscovery.a.current_window)
    /\ plat[FreshDiscovery.a.current_document].uri = atta.next_test[2]

\* C36, as stated: without load notifications, once a test other than the
\* pending one has been announced, with or without an end_test_run before
\* it, and the window and the document of the new test are there, an
\* is_ready poll returns true with currentDocument that document, or at
\* least changes the session so that a later poll can.
C36_FreshDiscoveryAfterAnnouncement ==
    [][(/\ lastOp'.op = "is_ready"
        /\ ~cfg.load_notifications
        /\ ~Truthy(atta.ready)
        /\ TestDocumentIsThere) =>
            \/ /\ lastOp'.y.ret
               /\ atta'.current_document = FreshDiscovery.a.current_document
            \/ atta' # atta]_vars


(***************************************************************************)
(* The Timer waiting for the test request.                                 *)
(***************************************************************************)

ShowsPendingTest(a, p, d) ==
    \/ p[d].uri # "" /\ p[d].uri = a.next_test[2]
    \/ p[d].uri = "" /\ Truthy(a.next_test[1]) /\ p[d].title = a.next_test[1]

\* The callback passes a notification from `source` on to is_ready: the ATK
\* adapter drops it when the application or its name cannot be read and when
\* it comes from the web process.
PassedOn(c, source, app_fault) ==
    c.api = "ATK" =>
        /\ ~app_fault
        /\ ApplicationOf(source) # None
        /\ AppName(ApplicationOf(source)) # "WebKitWebProcess"

====
